---- MODULE Spec2Model ----
(***************************************************************************)
(* TheodoraQ: classes, quiz assignments and quiz submissions.              *)
(*                                                                         *)
(* The model follows backend/controllers/classController.js (the class and *)
(* assignment controllers), the Mongoose schemas of models/Assignment.js   *)
(* and of the Class model, and the class routes.  Documents are records    *)
(* whose fields are the paths of their schema; a string is a sequence of   *)
(* one-character strings, so that trim, toUpperCase, split and the regular *)
(* expressions of the controllers are computed, not assumed.               *)
(***************************************************************************)
EXTENDS Integers, Sequences, FiniteSets, Bags, TLC

(***************************************************************************)
(* Strings                                                                 *)
(***************************************************************************)
\* "BCE" as a sequence of characters is <<"B","C","E">>.
UpperSeq == <<"A", "B", "C", "E", "I", "M", "T">>
LowerSeq == <<"a", "b", "c", "e", "i", "m", "t">>
DigitChars == {"0", "1", "2", "4"}
SpaceChars == {" "}

IsUpperChar(c) == \E i \in DOMAIN UpperSeq : UpperSeq[i] = c
IsLowerChar(c) == \E i \in DOMAIN LowerSeq : LowerSeq[i] = c
IsDigitChar(c) == c \in DigitChars

\* String.prototype.toUpperCase / toLowerCase, character by character.
ToUpperChar(c) ==
  IF IsLowerChar(c)
    THEN UpperSeq[CHOOSE i \in DOMAIN LowerSeq : LowerSeq[i] = c]
    ELSE c
ToLowerChar(c) ==
  IF IsUpperChar(c)
    THEN LowerSeq[CHOOSE i \in DOMAIN UpperSeq : UpperSeq[i] = c]
    ELSE c
ToUpperCase(s) == [i \in DOMAIN s |-> ToUpperChar(s[i])]
ToLowerCase(s) == [i \in DOMAIN s |-> ToLowerChar(s[i])]

\* String.prototype.trim: drop the white space at both ends.
RECURSIVE TrimStart(_)
TrimStart(s) ==
  IF s # <<>> /\ Head(s) \in SpaceChars THEN TrimStart(Tail(s)) ELSE s
RECURSIVE TrimEnd(_)
TrimEnd(s) ==
  IF s # <<>> /\ s[Len(s)] \in SpaceChars
    THEN TrimEnd(SubSeq(s, 1, Len(s) - 1))
    ELSE s
Trim(s) == TrimEnd(TrimStart(s))

\* String.prototype.includes(',') and String.prototype.split(',').
IncludesChar(s, c) == \E i \in DOMAIN s : s[i] = c
RECURSIVE SplitOn(_, _)
SplitOn(s, c) ==
  IF ~IncludesChar(s, c)
    THEN <<s>>
    ELSE LET k == CHOOSE i \in DOMAIN s :
                    s[i] = c /\ \A j \in 1..(i - 1) : s[j] # c
         IN  <<SubSeq(s, 1, k - 1)>> \o SplitOn(SubSeq(s, k + 1, Len(s)), c)

\* Array.prototype.includes on an array of strings.
ArrayIncludes(arr, x) == \E i \in DOMAIN arr : arr[i] = x

\* JavaScript truthiness of a string: the empty string is falsy.
Truthy(s) == s # <<>>

\* null, and a missing string field: the controllers only ever test these with
\* `!x`, which the empty string satisfies too, and no match is empty.
NoString == <<>>

(***************************************************************************)
(* Branch of a registration number (getSingleAssignment.extractBranch)     *)
(***************************************************************************)
AllDigits(s, a, b) == \A i \in a..b : IsDigitChar(s[i])
AllUpper(s, a, b) == \A i \in a..b : IsUpperChar(s[i])

\* regNum.match(/^\d{n}([A-Z]{2,4})\d+$/): n digits, 2 to 4 capitals, one or
\* more digits, and nothing else.  The result is the capture, or NoString.
MatchDigitsBranchDigits(s, n) ==
  LET ks == {k \in 2..4 :
               /\ Len(s) >= n + k + 1
               /\ AllDigits(s, 1, n)
               /\ AllUpper(s, n + 1, n + k)
               /\ AllDigits(s, n + k + 1, Len(s))}
  IN  IF ks = {} THEN NoString
      ELSE LET k == CHOOSE k \in ks : TRUE IN SubSeq(s, n + 1, n + k)

\* regNum.match(/[A-Z]{2,4}/): the leftmost position where two capitals
\* start, extended greedily to at most four.
MatchAnyBranch(s) ==
  LET starts == {i \in 1..(Len(s) - 1) : AllUpper(s, i, i + 1)}
  IN  IF starts = {} THEN NoString
      ELSE LET i == CHOOSE i \in starts : \A j \in starts : i <= j
               k == CHOOSE k \in 2..4 :
                      /\ i + k - 1 <= Len(s)
                      /\ AllUpper(s, i, i + k - 1)
                      /\ (k = 4 \/ i + k > Len(s) \/ ~IsUpperChar(s[i + k]))
           IN  SubSeq(s, i, i + k - 1)

\* Mutant: the number is upper-cased before it is matched.
extractBranchIgnoringCase(registrationNumber) ==
  IF ~Truthy(registrationNumber) THEN NoString
  ELSE LET regNum == Trim(ToUpperCase(registrationNumber))
           m1 == MatchDigitsBranchDigits(regNum, 2)
           m2 == MatchDigitsBranchDigits(regNum, 4)
           m3 == MatchDigitsBranchDigits(regNum, 0)
       IN  IF m1 # NoString THEN m1
           ELSE IF m2 # NoString THEN m2
           ELSE IF m3 # NoString THEN m3
           ELSE MatchAnyBranch(regNum)

extractBranch(registrationNumber) ==
  IF ~Truthy(registrationNumber) THEN NoString
  ELSE LET regNum == Trim(registrationNumber)
           m1 == MatchDigitsBranchDigits(regNum, 2)
           m2 == MatchDigitsBranchDigits(regNum, 4)
           m3 == MatchDigitsBranchDigits(regNum, 0)
       IN  IF m1 # NoString THEN m1
           ELSE IF m2 # NoString THEN m2
           ELSE IF m3 # NoString THEN m3
           ELSE MatchAnyBranch(regNum)

\* The subgroup restriction of getSingleAssignment: TRUE when the candidate
\* with this registration number may open an assignment with this subgroup.
allowedBranches(subgroup) ==
  LET parts == SplitOn(subgroup, ",")
  IN  [i \in DOMAIN parts |-> Trim(parts[i])]

SubgroupAdmits(subgroupField, registrationNumber) ==
  IF ~Truthy(subgroupField) THEN TRUE
  ELSE IF ~Truthy(registrationNumber) THEN FALSE
  ELSE LET candidateBranch == extractBranch(registrationNumber)
           subgroup == ToUpperCase(Trim(subgroupField))
       IN  IF ~Truthy(candidateBranch) THEN FALSE
           ELSE IF IncludesChar(subgroup, ",")
             THEN ArrayIncludes(allowedBranches(subgroup),
                                ToUpperCase(candidateBranch))
             ELSE ToUpperCase(candidateBranch) = subgroup

(***************************************************************************)
(* Identifiers and bounds                                                  *)
(***************************************************************************)
UserIds == {"adm", "eve", "u1", "u2"}
\* The _ids that documents can be given; a new document takes one that no
\* document has had before.
ClassIds == {"c1", "c2", "c3"}
AssignmentIds == {"a1", "a2", "a3"}

\* The clock runs over 0..MaxTime.
MaxTime == 2
\* Requests that can be between two of their awaits at the same time.
MaxInFlight == 2
\* Submissions of one assignment, and students of one class, that the model
\* lets accumulate.
MaxSubmissions == 2
MaxStudents == 2
\* A request that replaces an array of a document starts only while the
\* version (__v) of the document is below MaxVersion.
MaxVersion == 4

(***************************************************************************)
(* Schemas (Mongoose strict mode: a path the schema does not declare is    *)
(* neither stored by save/update nor readable on a loaded document)        *)
(***************************************************************************)
classSchema ==
  {"title", "courseCode", "description", "adminId", "students", "inviteCode",
   "isActive", "createdAt", "updatedAt"}
assignmentSchema ==
  {"quizId", "classId", "adminId", "subgroup", "subclasses", "dueDate",
   "timeLimit", "weightage", "weightageType", "submissions", "createdAt",
   "updatedAt"}
submissionSchema == {"_id", "candidateId", "score", "submittedAt", "answers"}
answerSchema == {"questionId", "selectedAnswer", "isCorrect"}

\* A record restricted to the paths of a schema.
StrictCast(schema, obj) == [f \in (DOMAIN obj) \cap schema |-> obj[f]]

\* `doc.field` used as a condition, for a boolean setting: a path that the
\* document does not carry reads as undefined, which is falsy.
FieldTruthy(doc, field) == field \in DOMAIN doc /\ doc[field] = TRUE

VARIABLES
  now,          \* the server clock (new Date())
  users,        \* User documents: role and registrationNumber
  quizzes,      \* quizId -> the questions of the quiz, with their answers
  classes,      \* the Class collection: _id -> document
  assignments,  \* the Assignment collection: _id -> document
  reqs,         \* the requests that are between two awaits
  resp,         \* the response that the last step sent (NoResponse: none)
  lateSetting,  \* history: the allowLateSubmissions that the last updateClass
                \* answered 200 asked for, per class
  browser,      \* the candidate's browser: localStorage, TakeQuizPage and
                \* the requests of the page
  created       \* the _ids that have been given to documents

vars ==
  <<now, users, quizzes, classes, assignments, reqs, resp, lateSetting,
    browser, created>>

\* The handlers of the server are written over the variables of the server;
\* a step of the server alone leaves the browser as it is.
\* TakeQuizPage before fetchQuiz has answered: nothing shown, no interval,
\* hasSubmittedRef as useRef(false) creates it.  expiries and autoSubmits are
\* history: the interval callbacks that found no time left, and the calls of
\* handleSubmit(true) that sent a request, since the page was loaded.
NoPage ==
  [view |-> "none", timer |-> "none", quizEndTime |-> 0, timeLeft |-> <<>>,
   hasSubmittedRef |-> FALSE, expiries |-> 0, autoSubmits |-> 0]

\* A fetch of the page: not called, or called and at one of its stages.
NoFetch == [stage |-> "none"]

\* A browser with an empty localStorage and no page open.  `get` and `post`
\* are the fetch of fetchQuiz and the fetch of handleSubmit of the open page;
\* `left` holds the bodies of the submits that a page which is no longer open
\* had sent and that have not reached the server yet.
NoBrowser ==
  [storage |-> <<>>, page |-> NoPage, get |-> NoFetch, post |-> NoFetch,
   left |-> {}]

\* reqs is a bag: two requests with the same caller, body and position are two
\* requests.
InFlight == BagToSet(reqs)
Suspend(q) == reqs' = reqs (+) SetToBag({q})
Resume(q, next) == reqs' = (reqs (-) SetToBag({q})) (+) SetToBag({next})
Finish(q) == reqs' = reqs (-) SetToBag({q})
CountInFlight(op, target) ==
  BagCardinality([q \in {x \in InFlight : x.op = op /\ x.target = target}
                    |-> reqs[q]])

NoResponse == [op |-> "none", caller |-> "", target |-> "", status |-> 0,
               message |-> ""]

\* A response: the operation, its caller and the document it names, then the
\* status and the message of the body.
Response(op, caller, target, status, message) ==
  [op |-> op, caller |-> caller, target |-> target, status |-> status,
   message |-> message]

(***************************************************************************)
(* Document.prototype.save() of a document that a query loaded             *)
(***************************************************************************)
\* The paths that the handler has given another value since the document was
\* loaded: an assignment of the value a path already has marks nothing.
modifiedPaths(schema, loaded, inMemory) ==
  {f \in schema \cap DOMAIN inMemory :
     f \notin DOMAIN loaded \/ inMemory[f] # loaded[f]}

\* save() fails when the document is no longer stored, and, when an array of
\* the document is replaced, when the stored version is not the loaded one.
saveRejected(collection, id, loaded, modified, arrays) ==
  \/ id \notin DOMAIN collection
  \/ /\ modified \cap arrays # {}
     /\ collection[id].__v # loaded.__v

\* What save() stores: the modified paths, with updatedAt (timestamps: true)
\* and, when an array is replaced, the next version; nothing when no path is
\* modified.
savedDocument(stored, inMemory, modified, arrays) ==
  IF modified = {} THEN stored
  ELSE [f \in (DOMAIN stored) \cup modified |->
          IF f \in modified THEN inMemory[f]
          ELSE IF f = "updatedAt" THEN now
          ELSE IF f = "__v" /\ modified \cap arrays # {} THEN stored.__v + 1
          ELSE stored[f]]


(***************************************************************************)
(* Grading (submitQuiz, step 4)                                            *)
(***************************************************************************)
\* A question is [id, type, answer]; the request's `answers` maps some of the
\* question ids to strings.  answers[id] of a missing key is undefined.
candidateAnswerOf(answers, question) ==
  IF question.id \in DOMAIN answers THEN answers[question.id] ELSE NoString

\* Mutant: every type of question is compared exactly.
isCorrectAnswerExact(question, candidateAnswer) ==
  candidateAnswer = question.answer

isCorrectAnswer(question, candidateAnswer) ==
  IF question.type = "short_answer"
    THEN ToLowerCase(Trim(candidateAnswer)) = ToLowerCase(Trim(question.answer))
    ELSE candidateAnswer = question.answer

\* One element of formattedAnswers.
formattedAnswer(question, answers) ==
  LET candidateAnswer == candidateAnswerOf(answers, question)
  IN  IF Truthy(candidateAnswer)
        THEN [questionId |-> question.id,
              selectedAnswer |-> candidateAnswer,
              isCorrect |-> isCorrectAnswer(question, candidateAnswer)]
        ELSE [questionId |-> question.id,
              selectedAnswer |-> NoString,
              isCorrect |-> FALSE]

formattedAnswers(questions, answers) ==
  [i \in DOMAIN questions |-> formattedAnswer(questions[i], answers)]

\* `score`: the number of questions counted as correct.
correctCount(questions, answers) ==
  Cardinality({i \in DOMAIN questions :
                 formattedAnswer(questions[i], answers).isCorrect})

\* Natural numbers of any size, by their digits to the base Base, the lowest
\* first and the highest not 0: the 53 bits of a Number do not fit a machine
\* integer of the model, nor do the products and quotients on the way.
Base == 1024
BaseBits == 10
RECURSIVE digitsOf(_)
digitsOf(n) == IF n = 0 THEN <<>> ELSE <<n % Base>> \o digitsOf(n \div Base)
RECURSIVE valueOf(_)
valueOf(a) == IF a = <<>> THEN 0 ELSE a[1] + Base * valueOf(Tail(a))
RECURSIVE stripped(_)
stripped(a) ==
  IF a # <<>> /\ a[Len(a)] = 0 THEN stripped(SubSeq(a, 1, Len(a) - 1)) ELSE a
RECURSIVE bitLength(_)
bitLength(n) == IF n = 0 THEN 0 ELSE 1 + bitLength(n \div 2)
bits(a) ==
  IF a = <<>> THEN 0 ELSE BaseBits * (Len(a) - 1) + bitLength(a[Len(a)])
isOdd(a) == a # <<>> /\ a[1] % 2 = 1
RECURSIVE plusOne(_)
plusOne(a) ==
  IF a = <<>> THEN <<1>>
  ELSE IF a[1] < Base - 1 THEN <<a[1] + 1>> \o Tail(a)
  ELSE <<0>> \o plusOne(Tail(a))
\* a * k + carry and a / k with its remainder, for k below 2^20.
RECURSIVE timesSmall(_, _, _)
timesSmall(a, k, carry) ==
  IF a = <<>> THEN digitsOf(carry)
  ELSE LET t == a[1] * k + carry
       IN  <<t % Base>> \o timesSmall(Tail(a), k, t \div Base)
RECURSIVE dividedBySmall(_, _)
dividedBySmall(a, k) ==
  IF a = <<>> THEN [q |-> <<>>, r |-> 0]
  ELSE LET higher == dividedBySmall(Tail(a), k)
           t == higher.r * Base + a[1]
       IN  [q |-> <<t \div k>> \o higher.q, r |-> t % k]
\* a * 2^s, and a / 2^s with whether bits were lost.
shiftedLeft(a, s) ==
  IF a = <<>> THEN <<>>
  ELSE [i \in 1..(s \div BaseBits) |-> 0] \o timesSmall(a, 2 ^ (s % BaseBits), 0)
shiftedRight(a, s) ==
  LET whole == IF s \div BaseBits < Len(a) THEN s \div BaseBits ELSE Len(a)
      low == dividedBySmall(SubSeq(a, whole + 1, Len(a)), 2 ^ (s % BaseBits))
  IN  [q |-> IF s \div BaseBits < Len(a) THEN stripped(low.q) ELSE <<>>,
       inexact |-> \/ low.r # 0
                   \/ s \div BaseBits >= Len(a) /\ a # <<>>
                   \/ \E i \in 1..whole : a[i] # 0]
\* Whether a < b, for two numbers of as many digits.
RECURSIVE lessDigits(_, _)
lessDigits(a, b) ==
  /\ a # <<>>
  /\ \/ a[Len(a)] < b[Len(b)]
     \/ /\ a[Len(a)] = b[Len(b)]
        /\ lessDigits(SubSeq(a, 1, Len(a) - 1), SubSeq(b, 1, Len(b) - 1))

\* A Number is an IEEE-754 double. Those that the grading meets are NaN, 0 and
\* the positive normal ones: [m, e] is m * 2^e with m of MantissaBits bits.
MantissaBits == 53
NaN == [nan |-> TRUE, m |-> <<>>, e |-> 0]
Zero == [nan |-> FALSE, m |-> <<>>, e |-> 0]
IsNaN(x) == x.nan
\* The double nearest to a * 2^e (to a little more, if inexact: then a has
\* more than MantissaBits + 1 bits): ties go to the even mantissa.
roundedToNearest(a, e, inexact) ==
  IF a = <<>> THEN Zero
  ELSE IF bits(a) <= MantissaBits
    THEN [nan |-> FALSE, m |-> shiftedLeft(a, MantissaBits - bits(a)),
          e |-> e - (MantissaBits - bits(a))]
    ELSE LET s == bits(a) - MantissaBits
             withRoundBit == shiftedRight(a, s - 1)
             down == shiftedRight(withRoundBit.q, 1).q
             up == /\ isOdd(withRoundBit.q)
                   /\ (withRoundBit.inexact \/ inexact \/ isOdd(down))
             m == IF up THEN plusOne(down) ELSE down
         IN  IF bits(m) > MantissaBits
               THEN [nan |-> FALSE, m |-> shiftedRight(m, 1).q, e |-> e + s + 1]
               ELSE [nan |-> FALSE, m |-> m, e |-> e + s]
\* The Number of a whole number, x * k and x / k for a Number x and a whole
\* number k (0 / 0 is NaN; nothing else is divided by 0 here), and x <= y.
NumberOf(n) == roundedToNearest(digitsOf(n), 0, FALSE)
times(x, k) ==
  IF IsNaN(x) THEN NaN
  ELSE IF k = 0 THEN Zero
  ELSE roundedToNearest(timesSmall(x.m, k, 0), x.e, FALSE)
over(x, k) ==
  IF IsNaN(x) \/ k = 0 THEN NaN
  ELSE LET d == dividedBySmall(shiftedLeft(x.m, 3 * BaseBits), k)
       IN  roundedToNearest(stripped(d.q), x.e - 3 * BaseBits, d.r # 0)
lessOrEqual(x, y) ==
  /\ ~IsNaN(x) /\ ~IsNaN(y)
  /\ \/ x = y
     \/ x = Zero
     \/ y # Zero /\ (x.e < y.e \/ (x.e = y.e /\ lessDigits(x.m, y.m)))
\* Math.round(x): the whole number nearest to x, the upper one of two.
MathRoundNumber(x) ==
  IF x = Zero THEN 0
  ELSE IF x.e >= 0 THEN valueOf(shiftedLeft(x.m, x.e))
  ELSE (valueOf(shiftedRight(x.m, -x.e - 1).q) + 1) \div 2

\* percentageScore = (score / totalQuestions) * 100
percentageScore(score, totalQuestions) ==
  times(over(NumberOf(score), totalQuestions), 100)

\* The submission object that submitQuiz builds (step 5).
buildSubmission(candidateId, questions, answers, isLateSubmission, submittedAt) ==
  [candidateId |-> candidateId,
   score |-> percentageScore(correctCount(questions, answers), Len(questions)),
   submittedAt |-> submittedAt,
   isLateSubmission |-> isLateSubmission,
   answers |-> formattedAnswers(questions, answers)]

\* const { answers, tabSwitchCount = 0, escCount = 0, wasFullscreen = false }
\* = req.body: the anti-cheat data of a request body, at its defaults where
\* the body does not give it.
antiCheatData(body) ==
  [tabSwitchCount |->
     IF "tabSwitchCount" \in DOMAIN body THEN body.tabSwitchCount ELSE 0,
   escCount |-> IF "escCount" \in DOMAIN body THEN body.escCount ELSE 0,
   wasFullscreen |->
     IF "wasFullscreen" \in DOMAIN body THEN body.wasFullscreen ELSE FALSE]

\* Validation of a pushed submission by assignment.save(): score is a required
\* Number (NaN does not cast), selectedAnswer and questionId are required
\* Strings (the empty string does not satisfy `required`).
answerValid(a) == Truthy(a.selectedAnswer)
submissionValid(sub) ==
  /\ ~IsNaN(sub.score)
  /\ \A i \in DOMAIN sub.answers : answerValid(sub.answers[i])

\* assignment.submissions.find(sub => sub.candidateId.toString() === id)
hasSubmission(assignment, candidateId) ==
  \E i \in DOMAIN assignment.submissions :
     assignment.submissions[i].candidateId = candidateId

\* Class.findOne({ _id: classId, students: candidateId }): <<>> or <<doc>>.
findClassOfStudent(classId, candidateId) ==
  IF /\ classId \in DOMAIN classes
     /\ \E i \in DOMAIN classes[classId].students :
          classes[classId].students[i] = candidateId
    THEN <<classes[classId]>>
    ELSE <<>>


(***************************************************************************)
(* submitQuiz: POST /api/candidate/submit-quiz/:assignmentId               *)
(* Three steps, one per database access: Assignment.findById, Class.findOne*)
(* with the checks and the grading that follow it, assignment.save().      *)
(***************************************************************************)
MsgAssignmentNotFound == "Assignment not found"
MsgNotEnrolled == "You are not enrolled in this class"
MsgAlreadySubmitted == "You have already submitted this quiz"
MsgPastDue == "This assignment is past due and late submissions are not allowed"
MsgLateRecorded == "Late submission recorded successfully!"
MsgSubmitted == "Quiz submitted successfully!"
MsgServerError == "Server error"

\* Step 1: Assignment.findById(assignmentId).populate('quizId').  The request
\* holds the paths of its body (answers, and the anti-cheat data if any).
submitQuiz_findAssignment(candidateId, assignmentId, body) ==
  /\ BagCardinality(reqs) < MaxInFlight
  /\ IF assignmentId \notin DOMAIN assignments
       THEN /\ resp' = Response("submitQuiz", candidateId, assignmentId, 404,
                                MsgAssignmentNotFound)
            /\ UNCHANGED reqs
       ELSE /\ Len(assignments[assignmentId].submissions)
                 + CountInFlight("submitQuiz", assignmentId) < MaxSubmissions
            /\ Suspend([op |-> "submitQuiz", pc |-> "findClass",
                        caller |-> candidateId, target |-> assignmentId,
                        assignment |-> assignments[assignmentId]] @@ body)
            /\ resp' = NoResponse
  /\ UNCHANGED <<now, users, quizzes, classes, assignments, lateSetting>>

\* Mutant: the due date itself already counts as past due.
isPastDueAtOrAfter(time, dueDate) == time >= dueDate

\* const isPastDue = new Date() > new Date(assignment.dueDate)
isPastDueAt(time, dueDate) == time > dueDate

\* Steps 2 to 5: enrolment, previous submission, due date, grading.  The
\* request q holds the paths of its body.
submitQuiz_check(q) ==
  /\ q \in InFlight /\ q.op = "submitQuiz" /\ q.pc = "findClass"
  /\ LET assignment == q.assignment
         found == findClassOfStudent(assignment.classId, q.caller)
         isPastDue == isPastDueAt(now, assignment.dueDate)
         reject(status, message) ==
           /\ resp' = Response("submitQuiz", q.caller, q.target, status, message)
           /\ Finish(q)
     IN  IF found = <<>> THEN reject(403, MsgNotEnrolled)
         ELSE IF hasSubmission(assignment, q.caller)
           THEN reject(400, MsgAlreadySubmitted)
         ELSE IF isPastDue /\ ~FieldTruthy(found[1], "allowLateSubmissions")
           THEN reject(403, MsgPastDue)
         ELSE /\ Resume(q, [op |-> "submitQuiz", pc |-> "save",
                            caller |-> q.caller, target |-> q.target,
                            answers |-> q.answers,
                            assignment |-> q.assignment,
                            submission |->
                              buildSubmission(q.caller,
                                              quizzes[assignment.quizId],
                                              q.answers, isPastDue, now)
                                @@ antiCheatData(q),
                            showScore |-> FieldTruthy(found[1], "showResults")])
              /\ resp' = NoResponse
  /\ UNCHANGED <<now, users, quizzes, classes, assignments, lateSetting>>

\* What assignment.submissions.push(submission) stores.
pushedSubmission(submission) == StrictCast(submissionSchema, submission)

\* Mutant: the save replaces the stored array by the pushed element.
savedSubmissionsOverwriting(stored, submission) ==
  <<pushedSubmission(submission)>>

\* assignment.save() after a push sends the pushed element only ($push, with
\* $inc of __v and no condition on __v): the stored array is extended,
\* whatever it holds by then.
savedSubmissions(stored, submission) ==
  Append(stored, pushedSubmission(submission))

\* Steps 6 to 8: assignment.save() validates, then updates the stored document.
submitQuiz_save(q) ==
  /\ q \in InFlight /\ q.op = "submitQuiz" /\ q.pc = "save"
  /\ Finish(q)
  /\ IF ~submissionValid(q.submission) \/ q.target \notin DOMAIN assignments
       THEN /\ resp' = Response("submitQuiz", q.caller, q.target, 500,
                                MsgServerError)
            /\ UNCHANGED assignments
       ELSE /\ assignments' =
                 [assignments EXCEPT
                    ![q.target].submissions = savedSubmissions(@, q.submission),
                    ![q.target].updatedAt = now,
                    ![q.target].__v = @ + 1]
            /\ resp' =
                 [op |-> "submitQuiz", caller |-> q.caller, target |-> q.target,
                  status |-> 200,
                  message |-> IF q.submission.isLateSubmission
                                THEN MsgLateRecorded ELSE MsgSubmitted,
                  score |-> IF q.showScore THEN <<q.submission.score>> ELSE <<>>,
                  showResults |-> q.showScore,
                  isLateSubmission |-> q.submission.isLateSubmission]
  /\ UNCHANGED <<now, users, quizzes, classes, lateSetting>>


(***************************************************************************)
(* joinClass: POST /api/classes/join                                       *)
(* Three steps, one per await: Class.findOne with the checks and the push, *)
(* classToJoin.save(), classToJoin.populate() with the response.           *)
(***************************************************************************)
MsgCodeRequired == "Invite code is required"
MsgOnlyCandidates == "Only candidates can join a class"
MsgClassNotFoundCode == "Class not found. Please check the invite code."
MsgAlreadyEnrolled == "You are already enrolled in this class"
MsgJoined == "Successfully joined class!"
MsgJoinFailed == "Failed to join class"

\* A field of req.body that is not undefined.
Given(body, field) == field \in DOMAIN body

\* Class.findOne({ inviteCode, isActive: true }): the ids that match.
classesWithCode(inviteCode) ==
  {c \in DOMAIN classes :
     classes[c].inviteCode = inviteCode /\ classes[c].isActive}

\* classToJoin.students.includes(candidateId)
studentsInclude(class, userId) ==
  \E i \in DOMAIN class.students : class.students[i] = userId

\* The checks, Class.findOne and the checks on what it found; the push is on
\* the loaded document.  An inviteCode that is missing is the empty string.
joinClass_find(candidateId, inviteCode) ==
  /\ BagCardinality(reqs) < MaxInFlight
  /\ LET answer(target, status, message) ==
           /\ resp' = Response("joinClass", candidateId, target, status, message)
           /\ UNCHANGED reqs
     IN  IF ~Truthy(inviteCode) THEN answer("", 400, MsgCodeRequired)
         ELSE IF users[candidateId].role # "candidate"
           THEN answer("", 403, MsgOnlyCandidates)
         ELSE IF classesWithCode(inviteCode) = {}
           THEN answer("", 404, MsgClassNotFoundCode)
         ELSE \E c \in classesWithCode(inviteCode) :
                IF studentsInclude(classes[c], candidateId)
                  THEN answer(c, 400, MsgAlreadyEnrolled)
                  ELSE /\ Len(classes[c].students)
                            + CountInFlight("joinClass", c) < MaxStudents
                       /\ Suspend([op |-> "joinClass", pc |-> "save",
                                   caller |-> candidateId, target |-> c])
                       /\ resp' = NoResponse
  /\ UNCHANGED <<now, users, quizzes, classes, assignments, lateSetting>>

\* classToJoin.save() pushes the candidate onto the stored array ($push, with
\* $inc of __v); it fails when the class is no longer stored.
joinClass_save(q) ==
  /\ q \in InFlight /\ q.op = "joinClass" /\ q.pc = "save"
  /\ IF q.target \notin DOMAIN classes
       THEN /\ Finish(q)
            /\ resp' = Response("joinClass", q.caller, q.target, 500,
                                MsgJoinFailed)
            /\ UNCHANGED classes
       ELSE /\ classes' = [classes EXCEPT ![q.target].students =
                                            Append(@, q.caller),
                                          ![q.target].__v = @ + 1]
            /\ Resume(q, [q EXCEPT !.pc = "populate"])
            /\ resp' = NoResponse
  /\ UNCHANGED <<now, users, quizzes, assignments, lateSetting>>

\* classToJoin.populate('adminId', 'name email'), then the response.
joinClass_populate(q) ==
  /\ q \in InFlight /\ q.op = "joinClass" /\ q.pc = "populate"
  /\ Finish(q)
  /\ resp' = Response("joinClass", q.caller, q.target, 200, MsgJoined)
  /\ UNCHANGED <<now, users, quizzes, classes, assignments, lateSetting>>


(***************************************************************************)
(* createClass: POST /api/classes                                          *)
(***************************************************************************)
MsgTitleAndCodeRequired == "Title and course code are required"
MsgClassCreated == "Class created successfully"
MsgCreateClassFailed == "Failed to create class"

\* `${courseCode.toUpperCase()}-${Math.random()...toUpperCase()}`; `random`
\* is the text that Math.random().toString(36).substr(2, 6).toUpperCase()
\* yields.
inviteCodeOf(courseCode, random) == ToUpperCase(courseCode) \o <<"-">> \o random

\* new Class({ title, courseCode, description, inviteCode, adminId }), with
\* the defaults of the schema and the version of a new document.
newClass(title, courseCode, description, adminId, inviteCode) ==
  [title |-> title, courseCode |-> courseCode, description |-> description,
   adminId |-> adminId, students |-> <<>>, inviteCode |-> inviteCode,
   isActive |-> TRUE, __v |-> 0]

\* One step: the only await is newClass.save().  inviteCode is a unique
\* index, so the save of a code that a class holds fails.
createClass(userId, body, random) ==
  /\ LET answer(status, message) ==
           /\ resp' = Response("createClass", userId, "", status, message)
           /\ UNCHANGED <<classes, created>>
     IN  IF \/ ~Given(body, "title") \/ body.title = ""
            \/ ~Given(body, "courseCode") \/ ~Truthy(body.courseCode)
           THEN answer(400, MsgTitleAndCodeRequired)
         ELSE LET inviteCode == inviteCodeOf(body.courseCode, random)
                  description ==
                    IF Given(body, "description") THEN body.description ELSE ""
              IN  IF \E c \in DOMAIN classes :
                       classes[c].inviteCode = inviteCode
                    THEN answer(500, MsgCreateClassFailed)
                    ELSE \E id \in ClassIds \ created :
                           /\ classes' =
                                (id :> newClass(body.title, body.courseCode,
                                                description, userId, inviteCode))
                                  @@ classes
                           /\ created' = created \cup {id}
                           /\ resp' = Response("createClass", userId, id, 201,
                                               MsgClassCreated)
  /\ UNCHANGED <<now, users, quizzes, assignments, reqs, lateSetting>>


(***************************************************************************)
(* The class routes that only the creator of the class may use.  Each      *)
(* takes one step per await: the findById with the checks on what it       *)
(* found, then each write.                                                 *)
(***************************************************************************)
MsgClassNotFound == "Class not found"
MsgUpdateForbidden ==
  "Not authorized to update this class. Only the class creator can update it."
MsgDeleteForbidden ==
  "Not authorized to delete this class. Only the class creator can delete it."
MsgRemoveForbidden ==
  "Not authorized to modify this class. Only the class creator can remove students."
MsgRegenerateForbidden == "Not authorized to modify this class"
MsgStudentIdRequired == "Student ID is required"
MsgStudentNotEnrolled == "Student is not enrolled in this class"
MsgClassUpdated == "Class updated successfully"
MsgUpdateClassFailed == "Failed to update class"
MsgClassDeleted == "Class deleted successfully"
MsgStudentRemoved == "Student removed from class successfully."
MsgRemoveFailed == "Failed to remove student from class"
MsgInviteRegenerated == "Invite code regenerated successfully"

\* doc with the paths of `update` set ($set).
SetPaths(doc, update) ==
  [f \in (DOMAIN doc) \cup (DOMAIN update) |->
     IF f \in DOMAIN update THEN update[f] ELSE doc[f]]

\* const updateData = {}; if (title !== undefined) updateData.title = ...
updateDataPaths ==
  {"title", "courseCode", "description", "semester", "academicYear",
   "allowLateSubmissions", "autoGrading", "showResults",
   "showRosterToCandidates", "showLeaderboardToCandidates"}
updateDataOf(body) == [f \in (DOMAIN body) \cap updateDataPaths |-> body[f]]

\* Class.findByIdAndUpdate(id, updateData, { new: true, runValidators: true })
findByIdAndUpdateClass(doc, updateData) ==
  SetPaths(doc, StrictCast(classSchema, updateData))

\* runValidators: title and courseCode are required, which the empty string
\* does not satisfy.
updateDataInvalid(updateData) ==
  \/ Given(updateData, "title") /\ updateData.title = ""
  \/ Given(updateData, "courseCode") /\ ~Truthy(updateData.courseCode)

\* PUT /api/classes/:id, to its second await.  `body` holds the fields of
\* req.body that are defined.
updateClass_find(userId, id, body) ==
  /\ BagCardinality(reqs) < MaxInFlight
  /\ IF id \notin DOMAIN classes
       THEN /\ resp' = Response("updateClass", userId, id, 404, MsgClassNotFound)
            /\ UNCHANGED reqs
       ELSE IF classes[id].adminId # userId
         THEN /\ resp' = Response("updateClass", userId, id, 403,
                                  MsgUpdateForbidden)
              /\ UNCHANGED reqs
         ELSE /\ Suspend([op |-> "updateClass", pc |-> "update",
                          caller |-> userId, target |-> id,
                          updateData |-> updateDataOf(body)])
              /\ resp' = NoResponse
  /\ UNCHANGED <<now, users, quizzes, classes, assignments, lateSetting>>

\* Class.findByIdAndUpdate and the response: the class as it is stored after
\* the update, null (no data) when it is no longer stored.
updateClass_update(q) ==
  /\ q \in InFlight /\ q.op = "updateClass" /\ q.pc = "update"
  /\ Finish(q)
  /\ IF updateDataInvalid(q.updateData)
       THEN /\ resp' = Response("updateClass", q.caller, q.target, 500,
                                MsgUpdateClassFailed)
            /\ UNCHANGED <<classes, lateSetting>>
       ELSE /\ classes' =
                 IF q.target \in DOMAIN classes
                   THEN [classes EXCEPT
                           ![q.target] = findByIdAndUpdateClass(@, q.updateData)]
                   ELSE classes
            /\ lateSetting' =
                 IF Given(q.updateData, "allowLateSubmissions")
                   THEN [lateSetting EXCEPT ![q.target] =
                           IF q.updateData.allowLateSubmissions
                             THEN "on" ELSE "off"]
                   ELSE lateSetting
            /\ resp' =
                 [op |-> "updateClass", caller |-> q.caller,
                  target |-> q.target, status |-> 200,
                  message |-> MsgClassUpdated,
                  data |-> IF q.target \in DOMAIN classes
                             THEN <<classes'[q.target]>> ELSE <<>>]
  /\ UNCHANGED <<now, users, quizzes, assignments>>

\* Mutant: deleteClass without the ownership check.
deleteClass_findUnchecked(userId, id) ==
  /\ BagCardinality(reqs) < MaxInFlight
  /\ IF id \notin DOMAIN classes
       THEN /\ resp' = Response("deleteClass", userId, id, 404, MsgClassNotFound)
            /\ UNCHANGED reqs
       ELSE /\ Suspend([op |-> "deleteClass", pc |-> "delete",
                        caller |-> userId, target |-> id])
            /\ resp' = NoResponse
  /\ UNCHANGED <<now, users, quizzes, classes, assignments, lateSetting>>

\* DELETE /api/classes/:id, to its second await.
deleteClass_find(userId, id) ==
  /\ BagCardinality(reqs) < MaxInFlight
  /\ IF id \notin DOMAIN classes
       THEN /\ resp' = Response("deleteClass", userId, id, 404, MsgClassNotFound)
            /\ UNCHANGED reqs
       ELSE IF classes[id].adminId # userId
         THEN /\ resp' = Response("deleteClass", userId, id, 403,
                                  MsgDeleteForbidden)
              /\ UNCHANGED reqs
         ELSE /\ Suspend([op |-> "deleteClass", pc |-> "delete",
                          caller |-> userId, target |-> id])
              /\ resp' = NoResponse
  /\ UNCHANGED <<now, users, quizzes, classes, assignments, lateSetting>>

\* Class.findByIdAndDelete(id), which deletes nothing when the class is no
\* longer stored, and the response.
deleteClass_delete(q) ==
  /\ q \in InFlight /\ q.op = "deleteClass" /\ q.pc = "delete"
  /\ Finish(q)
  /\ classes' = [c \in (DOMAIN classes) \ {q.target} |-> classes[c]]
  /\ resp' = Response("deleteClass", q.caller, q.target, 200, MsgClassDeleted)
  /\ UNCHANGED <<now, users, quizzes, assignments, lateSetting>>

\* array.filter(keep)
RECURSIVE Filter(_, _)
Filter(seq, drop) ==
  IF seq = <<>> THEN <<>>
  ELSE IF Head(seq) \in drop THEN Filter(Tail(seq), drop)
  ELSE <<Head(seq)>> \o Filter(Tail(seq), drop)

\* assignment.submissions.filter(sub => sub.candidateId !== studentId)
RECURSIVE withoutSubmissionsOf(_, _)
withoutSubmissionsOf(submissions, studentId) ==
  IF submissions = <<>> THEN <<>>
  ELSE IF Head(submissions).candidateId = studentId
    THEN withoutSubmissionsOf(Tail(submissions), studentId)
    ELSE <<Head(submissions)>> \o withoutSubmissionsOf(Tail(submissions), studentId)

\* Mutant: the assignments of every class are cleaned.
assignmentsOfAnyClass(id) == DOMAIN assignments

\* The assignments of a class (Assignment.find({ classId: id })).
assignmentsOfClass(id) == {a \in DOMAIN assignments : assignments[a].classId = id}

\* The orders in which a query without a sort can return a set of documents.
Orderings(set) ==
  {s \in [1..Cardinality(set) -> set] :
     \A i, j \in 1..Cardinality(set) : s[i] = s[j] => i = j}

\* The 200 of removeStudentFromClass; the number is the one of its message.
studentRemoved(q, totalSubmissionsRemoved) ==
  [op |-> "removeStudentFromClass", caller |-> q.caller, target |-> q.target,
   status |-> 200, message |-> MsgStudentRemoved, studentId |-> q.studentId,
   totalSubmissionsRemoved |-> totalSubmissionsRemoved]

\* POST /api/classes/:id/remove-student, to the await of classDoc.save().
\* studentId "" is a missing studentId.  `students` is the array that the
\* handler has put on the loaded document.
removeStudentFromClass_find(userId, id, studentId) ==
  /\ BagCardinality(reqs) < MaxInFlight
  /\ LET answer(status, message) ==
           /\ resp' = Response("removeStudentFromClass", userId, id, status,
                               message)
           /\ UNCHANGED reqs
     IN  IF studentId = "" THEN answer(400, MsgStudentIdRequired)
         ELSE IF id \notin DOMAIN classes THEN answer(404, MsgClassNotFound)
         ELSE IF classes[id].adminId # userId
           THEN answer(403, MsgRemoveForbidden)
         ELSE IF ~studentsInclude(classes[id], studentId)
           THEN answer(400, MsgStudentNotEnrolled)
         ELSE /\ classes[id].__v < MaxVersion
              /\ Suspend([op |-> "removeStudentFromClass", pc |-> "saveClass",
                          caller |-> userId, target |-> id,
                          studentId |-> studentId,
                          classDoc |-> classes[id],
                          students |-> Filter(classes[id].students, {studentId})])
              /\ resp' = NoResponse
  /\ UNCHANGED <<now, users, quizzes, classes, assignments, lateSetting>>

\* classDoc.save(): the array of the loaded document, filtered, replaces the
\* stored one, if the stored version is still the loaded one.
removeStudentFromClass_saveClass(q) ==
  /\ q \in InFlight /\ q.op = "removeStudentFromClass" /\ q.pc = "saveClass"
  /\ LET inMemory == [q.classDoc EXCEPT !.students = q.students]
         modified == modifiedPaths(classSchema, q.classDoc, inMemory)
     IN  IF saveRejected(classes, q.target, q.classDoc, modified, {"students"})
           THEN /\ Finish(q)
                /\ resp' = Response("removeStudentFromClass", q.caller,
                                    q.target, 500, MsgRemoveFailed)
                /\ UNCHANGED classes
           ELSE /\ classes' =
                     [classes EXCEPT
                        ![q.target] =
                          savedDocument(@, inMemory, modified, {"students"})]
                /\ Resume(q, [op |-> "removeStudentFromClass",
                              pc |-> "findAssignments", caller |-> q.caller,
                              target |-> q.target, studentId |-> q.studentId])
                /\ resp' = NoResponse
  /\ UNCHANGED <<now, users, quizzes, assignments, lateSetting>>

\* Assignment.find({ classId: id }) and the loop to its first save: `pending`
\* holds, in the order of the loop, the loaded assignments from which the
\* filter removes a submission.
removeStudentFromClass_findAssignments(q) ==
  /\ q \in InFlight /\ q.op = "removeStudentFromClass"
  /\ q.pc = "findAssignments"
  /\ \E found \in Orderings(assignmentsOfClass(q.target)) :
       LET toSave == SelectSeq(found,
                               LAMBDA a : hasSubmission(assignments[a],
                                                        q.studentId))
       IN  IF toSave = <<>>
             THEN /\ Finish(q)
                  /\ resp' = studentRemoved(q, 0)
             ELSE /\ Resume(q, [op |-> "removeStudentFromClass",
                                pc |-> "saveAssignment", caller |-> q.caller,
                                target |-> q.target, studentId |-> q.studentId,
                                pending |->
                                  [i \in DOMAIN toSave |->
                                     [id |-> toSave[i],
                                      assignment |-> assignments[toSave[i]]]],
                                totalSubmissionsRemoved |-> 0])
                  /\ resp' = NoResponse
  /\ UNCHANGED <<now, users, quizzes, classes, assignments, lateSetting>>

\* assignment.save() of the first pending assignment, and the loop to the
\* next save or to the response.
removeStudentFromClass_saveAssignment(q) ==
  /\ q \in InFlight /\ q.op = "removeStudentFromClass"
  /\ q.pc = "saveAssignment"
  /\ LET id == q.pending[1].id
         loaded == q.pending[1].assignment
         inMemory == [loaded EXCEPT
                        !.submissions = withoutSubmissionsOf(@, q.studentId)]
         modified == modifiedPaths(assignmentSchema, loaded, inMemory)
         removedCount == Len(loaded.submissions) - Len(inMemory.submissions)
         total == q.totalSubmissionsRemoved + removedCount
     IN  IF saveRejected(assignments, id, loaded, modified, {"submissions"})
           THEN /\ Finish(q)
                /\ resp' = Response("removeStudentFromClass", q.caller,
                                    q.target, 500, MsgRemoveFailed)
                /\ UNCHANGED assignments
           ELSE /\ assignments' =
                     [assignments EXCEPT
                        ![id] = savedDocument(@, inMemory, modified,
                                              {"submissions"})]
                /\ IF Len(q.pending) = 1
                     THEN /\ Finish(q)
                          /\ resp' = studentRemoved(q, total)
                     ELSE /\ Resume(q, [q EXCEPT
                                          !.pending = Tail(@),
                                          !.totalSubmissionsRemoved = total])
                          /\ resp' = NoResponse
  /\ UNCHANGED <<now, users, quizzes, classes, lateSetting>>

\* PATCH /api/classes/:id/regenerate-invite, to the await of save().
regenerateInvite_find(userId, id, random) ==
  /\ BagCardinality(reqs) < MaxInFlight
  /\ IF id \notin DOMAIN classes
       THEN /\ resp' = Response("regenerateInvite", userId, id, 404,
                                MsgClassNotFound)
            /\ UNCHANGED reqs
       ELSE IF classes[id].adminId # userId
         THEN /\ resp' = Response("regenerateInvite", userId, id, 403,
                                  MsgRegenerateForbidden)
              /\ UNCHANGED reqs
         ELSE /\ Suspend([op |-> "regenerateInvite", pc |-> "save",
                          caller |-> userId, target |-> id,
                          classData |-> classes[id],
                          newInviteCode |->
                            inviteCodeOf(classes[id].courseCode, random)])
              /\ resp' = NoResponse
  /\ UNCHANGED <<now, users, quizzes, classes, assignments, lateSetting>>

\* classData.save(): inviteCode is a unique index, so the save of a code that
\* another class holds fails, as the save of a class that is no longer stored.
regenerateInvite_save(q) ==
  /\ q \in InFlight /\ q.op = "regenerateInvite" /\ q.pc = "save"
  /\ Finish(q)
  /\ LET inMemory == [q.classData EXCEPT !.inviteCode = q.newInviteCode]
         modified == modifiedPaths(classSchema, q.classData, inMemory)
     IN  IF \/ saveRejected(classes, q.target, q.classData, modified, {"students"})
            \/ /\ modified # {}
               /\ \E c \in (DOMAIN classes) \ {q.target} :
                    classes[c].inviteCode = q.newInviteCode
           THEN /\ resp' = Response("regenerateInvite", q.caller, q.target, 500,
                                    MsgServerError)
                /\ UNCHANGED classes
           ELSE /\ classes' =
                     [classes EXCEPT
                        ![q.target] =
                          savedDocument(@, inMemory, modified, {"students"})]
                /\ resp' =
                     [op |-> "regenerateInvite", caller |-> q.caller,
                      target |-> q.target, status |-> 200,
                      message |-> MsgInviteRegenerated,
                      inviteCode |-> q.newInviteCode]
  /\ UNCHANGED <<now, users, quizzes, assignments, lateSetting>>


(***************************************************************************)
(* What a candidate reads                                                  *)
(***************************************************************************)
MsgOnlyCandidatesQuiz == "Only candidates can take quizzes"
MsgNotEnrolledAssignment ==
  "You are not enrolled in the class for this assignment"
MsgSubgroupMismatch ==
  "You are not authorized to access this quiz (subgroup mismatch)"
MsgFetchFailed == "Failed to fetch assignment"
MsgOnlyCandidatesView == "Only candidates can view assignments"
MsgClassNotFoundOrNotEnrolled == "Class not found or you are not enrolled"

\* const { answer, ...questionWithoutAnswer } = q
questionWithoutAnswer(q) == [f \in (DOMAIN q) \ {"answer"} |-> q[f]]

\* shuffle([...questions]): Math.random() can produce every order.
Orders(n) == {p \in [1..n -> 1..n] : \A i, j \in 1..n : p[i] = p[j] => i = j}
questionsForCandidate(questions, order) ==
  [i \in DOMAIN questions |-> questionWithoutAnswer(questions[order[i]])]

\* assignment.submissions.find(sub => sub.candidateId === candidateId)
submissionsOf(assignment, candidateId) ==
  {i \in DOMAIN assignment.submissions :
     assignment.submissions[i].candidateId = candidateId}
firstSubmissionOf(assignment, candidateId) ==
  assignment.submissions[
    CHOOSE i \in submissionsOf(assignment, candidateId) :
      \A j \in submissionsOf(assignment, candidateId) : i <= j]

\* GET /api/candidate/assignment/:assignmentId, to its second await: the role,
\* then Assignment.findById with quizId and classId populated.  The class of
\* an assignment whose class is no longer stored is populated as null, and
\* reading its _id throws.
getSingleAssignment_findAssignment(candidateId, assignmentId) ==
  /\ BagCardinality(reqs) < MaxInFlight
  /\ LET answer(status, message) ==
           /\ resp' = Response("getSingleAssignment", candidateId,
                               assignmentId, status, message)
           /\ UNCHANGED reqs
     IN  IF users[candidateId].role # "candidate"
           THEN answer(403, MsgOnlyCandidatesQuiz)
         ELSE IF assignmentId \notin DOMAIN assignments
           THEN answer(404, MsgAssignmentNotFound)
         ELSE IF assignments[assignmentId].classId \notin DOMAIN classes
           THEN answer(500, MsgFetchFailed)
         ELSE /\ Suspend([op |-> "getSingleAssignment", pc |-> "findClass",
                          caller |-> candidateId, target |-> assignmentId,
                          assignment |-> assignments[assignmentId],
                          className |->
                            classes[assignments[assignmentId].classId].title,
                          questions |->
                            quizzes[assignments[assignmentId].quizId]])
              /\ resp' = NoResponse
  /\ UNCHANGED <<now, users, quizzes, classes, assignments, lateSetting>>

\* Class.findOne({ _id, students: candidateId }), to the next await: the one
\* of User.findById when the assignment has a subgroup, the one of
\* ClassModel.findById otherwise.
getSingleAssignment_findClass(q) ==
  /\ q \in InFlight /\ q.op = "getSingleAssignment" /\ q.pc = "findClass"
  /\ IF findClassOfStudent(q.assignment.classId, q.caller) = <<>>
       THEN /\ Finish(q)
            /\ resp' = Response("getSingleAssignment", q.caller, q.target, 403,
                                MsgNotEnrolledAssignment)
       ELSE /\ Resume(q, [q EXCEPT
                            !.pc = IF Truthy(q.assignment.subgroup)
                                     THEN "findUser" ELSE "findClassInfo"])
            /\ resp' = NoResponse
  /\ UNCHANGED <<now, users, quizzes, classes, assignments, lateSetting>>

\* User.findById(candidateId).select('registrationNumber') and the subgroup
\* restriction.
getSingleAssignment_findUser(q) ==
  /\ q \in InFlight /\ q.op = "getSingleAssignment" /\ q.pc = "findUser"
  /\ IF ~SubgroupAdmits(q.assignment.subgroup,
                        users[q.caller].registrationNumber)
       THEN /\ Finish(q)
            /\ resp' = Response("getSingleAssignment", q.caller, q.target, 403,
                                MsgSubgroupMismatch)
       ELSE /\ Resume(q, [q EXCEPT !.pc = "findClassInfo"])
            /\ resp' = NoResponse
  /\ UNCHANGED <<now, users, quizzes, classes, assignments, lateSetting>>

\* ClassModel.findById(assignment.classId), the clock and the response.  The
\* order of the shuffle, which the handler draws before this await, is drawn
\* here: it depends on nothing but Math.random().
getSingleAssignment_findClassInfo(q) ==
  /\ q \in InFlight /\ q.op = "getSingleAssignment" /\ q.pc = "findClassInfo"
  /\ Finish(q)
  /\ LET assignment == q.assignment
         classInfo == IF assignment.classId \in DOMAIN classes
                        THEN <<classes[assignment.classId]>> ELSE <<>>
     IN  \E order \in Orders(Len(q.questions)) :
           resp' =
             [op |-> "getSingleAssignment",
              caller |-> q.caller, target |-> q.target,
              status |-> 200, message |-> "",
              className |-> q.className,
              questions |-> questionsForCandidate(q.questions, order),
              timeLimit |-> assignment.timeLimit,
              dueDate |-> assignment.dueDate,
              updatedAt |-> assignment.updatedAt,
              hasSubmitted |-> hasSubmission(assignment, q.caller),
              submissionScore |->
                IF hasSubmission(assignment, q.caller)
                  THEN <<firstSubmissionOf(assignment, q.caller).score>>
                  ELSE <<>>,
              isPastDue |-> assignment.dueDate < now,
              allowLateSubmissions |->
                classInfo # <<>>
                  /\ FieldTruthy(classInfo[1], "allowLateSubmissions"),
              proctoringEnabled |-> FieldTruthy(assignment, "proctoringEnabled")]
  /\ UNCHANGED <<now, users, quizzes, classes, assignments, lateSetting>>

\* getCandidateAssignments.extractBranch upper-cases the number first.
extractBranchUpper(registrationNumber) ==
  IF ~Truthy(registrationNumber) THEN NoString
  ELSE extractBranch(ToUpperCase(registrationNumber))

\* The filter of getCandidateAssignments.
isEligible(subgroupField, candidateBranch) ==
  IF ~Truthy(subgroupField) THEN TRUE
  ELSE IF ~Truthy(candidateBranch) THEN FALSE
  ELSE LET subgroup == ToUpperCase(subgroupField)
       IN  IF IncludesChar(subgroup, ",")
             THEN ArrayIncludes(allowedBranches(subgroup),
                                ToUpperCase(candidateBranch))
             ELSE ToUpperCase(candidateBranch) = subgroup

\* One document of Assignment.find(...).select('dueDate timeLimit quizId
\* submissions subgroup').populate('quizId', 'title questions').
selectedAssignment(a) ==
  [_id |-> a,
   dueDate |-> assignments[a].dueDate,
   timeLimit |-> assignments[a].timeLimit,
   quizId |-> [_id |-> assignments[a].quizId,
               questions |-> quizzes[assignments[a].quizId]],
   submissions |-> assignments[a].submissions,
   subgroup |-> assignments[a].subgroup]

\* One element of assignmentsWithStatus: the loaded assignment, then the
\* status fields (null is <<>>).
assignmentWithStatus(assignmentObj, candidateId, classData) ==
  LET submitted == hasSubmission(assignmentObj, candidateId)
      showScore == FieldTruthy(classData, "showResults") /\ submitted
  IN  assignmentObj @@
      [hasSubmitted |-> submitted,
       submissionScore |->
         IF showScore
           THEN <<firstSubmissionOf(assignmentObj, candidateId).score>>
           ELSE <<>>,
       submittedAt |->
         IF submitted
           THEN <<firstSubmissionOf(assignmentObj, candidateId).submittedAt>>
           ELSE <<>>,
       isLateSubmission |->
         submitted /\ FieldTruthy(firstSubmissionOf(assignmentObj, candidateId),
                                  "isLateSubmission"),
       allowLateSubmissions |-> FieldTruthy(classData, "allowLateSubmissions")]

\* .sort({ dueDate: 1 }): the orders of non-decreasing due date in which the
\* query can return the documents; the database decides among those of equal
\* due date.
sortedByDueDate(ids) ==
  {found \in Orderings(ids) :
     \A i, j \in DOMAIN found :
       i < j => assignments[found[i]].dueDate <= assignments[found[j]].dueDate}

\* GET /api/candidate/assignments/:classId, to its second await: the role and
\* Class.findOne({ _id: classId, students: candidateId }).
getCandidateAssignments_findClass(candidateId, classId) ==
  /\ BagCardinality(reqs) < MaxInFlight
  /\ IF users[candidateId].role # "candidate"
       THEN /\ resp' = Response("getCandidateAssignments", candidateId, classId,
                                403, MsgOnlyCandidatesView)
            /\ UNCHANGED reqs
       ELSE IF findClassOfStudent(classId, candidateId) = <<>>
         THEN /\ resp' = Response("getCandidateAssignments", candidateId,
                                  classId, 404, MsgClassNotFoundOrNotEnrolled)
              /\ UNCHANGED reqs
         ELSE /\ Suspend([op |-> "getCandidateAssignments",
                          pc |-> "findAssignments", caller |-> candidateId,
                          target |-> classId, classData |-> classes[classId]])
              /\ resp' = NoResponse
  /\ UNCHANGED <<now, users, quizzes, classes, assignments, lateSetting>>

\* Assignment.find({ classId }).select(...).populate(...).sort(...)
getCandidateAssignments_findAssignments(q) ==
  /\ q \in InFlight /\ q.op = "getCandidateAssignments"
  /\ q.pc = "findAssignments"
  /\ \E ids \in sortedByDueDate(assignmentsOfClass(q.target)) :
       Resume(q, [op |-> "getCandidateAssignments", pc |-> "findUser",
                  caller |-> q.caller, target |-> q.target,
                  classData |-> q.classData,
                  assignments |->
                    [i \in DOMAIN ids |-> selectedAssignment(ids[i])]])
  /\ resp' = NoResponse
  /\ UNCHANGED <<now, users, quizzes, classes, assignments, lateSetting>>

\* User.findById(candidateId).select('registrationNumber'), the filter by
\* subgroup and the response.
getCandidateAssignments_findUser(q) ==
  /\ q \in InFlight /\ q.op = "getCandidateAssignments" /\ q.pc = "findUser"
  /\ Finish(q)
  /\ LET candidateBranch ==
           extractBranchUpper(users[q.caller].registrationNumber)
         filtered ==
           SelectSeq(q.assignments,
                     LAMBDA assignment :
                       isEligible(assignment.subgroup, candidateBranch))
     IN  resp' =
           [op |-> "getCandidateAssignments", caller |-> q.caller,
            target |-> q.target, status |-> 200, message |-> "",
            data |-> [i \in DOMAIN filtered |->
                        assignmentWithStatus(filtered[i], q.caller,
                                             q.classData)]]
  /\ UNCHANGED <<now, users, quizzes, classes, assignments, lateSetting>>

\* GET /api/assignments/:assignmentId/submissions: one step, its only await
\* is the query.  classId is populated as null when the class is no longer
\* stored, and reading its title throws.
MsgOnlyAdminsSubmissions == "Not authorized. Only admins can view submissions."
MsgNotOwner == "You do not own this assignment"
getAssignmentSubmissions(adminId, assignmentId) ==
  /\ LET answer(status, message) ==
           resp' = Response("getAssignmentSubmissions", adminId, assignmentId,
                            status, message)
     IN  IF users[adminId].role # "admin"
           THEN answer(403, MsgOnlyAdminsSubmissions)
         ELSE IF assignmentId \notin DOMAIN assignments
           THEN answer(404, MsgAssignmentNotFound)
         ELSE IF assignments[assignmentId].adminId # adminId
           THEN answer(403, MsgNotOwner)
         ELSE IF assignments[assignmentId].classId \notin DOMAIN classes
           THEN answer(500, MsgServerError)
         ELSE resp' =
                [op |-> "getAssignmentSubmissions", caller |-> adminId,
                 target |-> assignmentId, status |-> 200, message |-> "",
                 classTitle |-> classes[assignments[assignmentId].classId].title,
                 courseCode |->
                   classes[assignments[assignmentId].classId].courseCode,
                 dueDate |-> assignments[assignmentId].dueDate,
                 timeLimit |-> assignments[assignmentId].timeLimit,
                 submissions |-> assignments[assignmentId].submissions,
                 totalSubmissions |->
                   Len(assignments[assignmentId].submissions)]
  /\ UNCHANGED <<now, users, quizzes, classes, assignments, reqs, lateSetting>>

(***************************************************************************)
(* Dates as a request gives them                                           *)
(***************************************************************************)
\* A dueDate of a request body is a text: `time` is <<t>> when new Date(text)
\* is the instant t and <<>> when it is an Invalid Date.  The empty text is
\* falsy, and new Date('') is an Invalid Date.
DateText(t) == [text |-> "date", time |-> <<t>>]
InvalidDateText == [text |-> "soon", time |-> <<>>]
EmptyText == [text |-> "", time |-> <<>>]
TextTruthy(value) == value.text # ""
NewDate(value) == value.time

(***************************************************************************)
(* updateAssignment: PUT /api/assignments/:id                              *)
(* Four steps, one per await: Assignment.findById with the checks and the  *)
(* assignments to the loaded document, assignment.save(), and the two      *)
(* populate, the second with the response.                                 *)
(***************************************************************************)
MsgUpdateAssignmentForbidden == "Not authorized to update this assignment"
MsgInvalidDueDate == "Invalid due date format"
MsgTimeLimitPositive == "Time limit must be a positive number"
MsgWeightagePositive == "Weightage must be a positive number"
MsgPercentageTooHigh == "Percentage weightage cannot exceed 100%"
MsgWeightageTypeInvalid ==
  "Weightage type must be either \"percentage\" or \"marks\""
MsgAssignmentUpdated == "Assignment updated successfully"
MsgUpdateAssignmentFailed == "Failed to update assignment"

\* if (dueDate): the field is given and is not falsy.
dueDateGiven(body) == Given(body, "dueDate") /\ TextTruthy(body.dueDate)

\* The message of the first validation that fails, "" when none does.
\* timeLimit and weightage are the numbers that parseInt and parseFloat yield
\* (one that is not a number fails as 0 does).
updateAssignmentError(body) ==
  IF dueDateGiven(body) /\ NewDate(body.dueDate) = <<>> THEN MsgInvalidDueDate
  ELSE IF Given(body, "timeLimit") /\ body.timeLimit <= 0
    THEN MsgTimeLimitPositive
  ELSE IF Given(body, "weightage") /\ body.weightage <= 0
    THEN MsgWeightagePositive
  ELSE IF /\ Given(body, "weightage") /\ Given(body, "weightageType")
          /\ body.weightageType = "percentage" /\ body.weightage > 100
    THEN MsgPercentageTooHigh
  ELSE IF /\ Given(body, "weightageType")
          /\ body.weightageType \notin {"percentage", "marks"}
    THEN MsgWeightageTypeInvalid
  ELSE ""

\* Mutant: every accepted update clears the submissions.
clearsSubmissionsAlways(body) == TRUE

\* if (allowRetake === true)
clearsSubmissions(body) == Given(body, "allowRetake") /\ body.allowRetake = TRUE

\* The loaded document after the assignments of the handler.  The schema has
\* no path proctoringEnabled: the assignment to it makes a property of the
\* object in memory, which save() does not store.
updatedAssignment(assignment, body) ==
  LET paths ==
        [assignment EXCEPT
           !.dueDate = IF dueDateGiven(body) THEN NewDate(body.dueDate)[1] ELSE @,
           !.timeLimit = IF Given(body, "timeLimit") THEN body.timeLimit ELSE @,
           !.weightage = IF Given(body, "weightage") THEN body.weightage ELSE @,
           !.weightageType =
              IF Given(body, "weightageType") THEN body.weightageType ELSE @,
           !.subgroup = IF Given(body, "subgroup") THEN Trim(body.subgroup) ELSE @,
           !.submissions = IF clearsSubmissions(body) THEN <<>> ELSE @]
  IN  IF Given(body, "proctoringEnabled")
        THEN [proctoringEnabled |-> body.proctoringEnabled] @@ paths
        ELSE paths

\* A response of updateAssignment; allowRetake is that of the request.
updateAssignmentAnswer(userId, id, allowRetake, status, message) ==
  [op |-> "updateAssignment", caller |-> userId, target |-> id,
   status |-> status, message |-> message, allowRetake |-> allowRetake]

updateAssignment_find(userId, id, body) ==
  /\ BagCardinality(reqs) < MaxInFlight
  /\ LET allowRetake == Given(body, "allowRetake") /\ body.allowRetake = TRUE
         answer(status, message) ==
           /\ resp' = updateAssignmentAnswer(userId, id, allowRetake, status,
                                             message)
           /\ UNCHANGED reqs
     IN  IF id \notin DOMAIN assignments THEN answer(404, MsgAssignmentNotFound)
         ELSE IF assignments[id].adminId # userId
           THEN answer(403, MsgUpdateAssignmentForbidden)
         ELSE IF updateAssignmentError(body) # ""
           THEN answer(400, updateAssignmentError(body))
         ELSE /\ assignments[id].__v < MaxVersion
              /\ Suspend([op |-> "updateAssignment", pc |-> "save",
                          caller |-> userId, target |-> id,
                          allowRetake |-> allowRetake,
                          loaded |-> assignments[id],
                          assignment |-> updatedAssignment(assignments[id], body)])
              /\ resp' = NoResponse
  /\ UNCHANGED <<now, users, quizzes, classes, assignments, lateSetting>>

\* assignment.save(): the modified paths are stored; when the submissions are
\* replaced, only if the stored version is still the loaded one.
updateAssignment_save(q) ==
  /\ q \in InFlight /\ q.op = "updateAssignment" /\ q.pc = "save"
  /\ LET modified == modifiedPaths(assignmentSchema, q.loaded, q.assignment)
     IN  IF saveRejected(assignments, q.target, q.loaded, modified,
                         {"submissions"})
           THEN /\ Finish(q)
                /\ resp' = updateAssignmentAnswer(q.caller, q.target,
                                                  q.allowRetake, 500,
                                                  MsgUpdateAssignmentFailed)
                /\ UNCHANGED assignments
           ELSE /\ assignments' =
                     [assignments EXCEPT
                        ![q.target] = savedDocument(@, q.assignment, modified,
                                                    {"submissions"})]
                /\ Resume(q, [op |-> "updateAssignment", pc |-> "populateQuiz",
                              caller |-> q.caller, target |-> q.target,
                              allowRetake |-> q.allowRetake])
                /\ resp' = NoResponse
  /\ UNCHANGED <<now, users, quizzes, classes, lateSetting>>

\* assignment.populate('quizId', 'title questions')
updateAssignment_populateQuiz(q) ==
  /\ q \in InFlight /\ q.op = "updateAssignment" /\ q.pc = "populateQuiz"
  /\ Resume(q, [q EXCEPT !.pc = "populateClass"])
  /\ resp' = NoResponse
  /\ UNCHANGED <<now, users, quizzes, classes, assignments, lateSetting>>

\* assignment.populate('classId', 'title courseCode') and the response.
updateAssignment_populateClass(q) ==
  /\ q \in InFlight /\ q.op = "updateAssignment" /\ q.pc = "populateClass"
  /\ Finish(q)
  /\ resp' = updateAssignmentAnswer(q.caller, q.target, q.allowRetake, 200,
                                    MsgAssignmentUpdated)
  /\ UNCHANGED <<now, users, quizzes, classes, assignments, lateSetting>>


(***************************************************************************)
(* createAssignment: POST /api/assignments                                 *)
(* One step per await: Quiz.findOne, Class.findOne, the User.find of the   *)
(* subgroup and the one of the subclasses when the body has them,          *)
(* newAssignment.save(), and the two populate.                             *)
(***************************************************************************)
MsgAllFieldsRequired ==
  "All fields are required (quizId, classId, dueDate, timeLimit)"
MsgQuizNotFoundOrNotOwner == "Quiz not found or you are not the owner"
MsgClassNotFoundOrNotOwner == "Class not found or you are not the owner"
MsgAssignmentCreated == "Assignment created successfully"
MsgCreateAssignmentFailed == "Failed to create assignment"

\* The admin who owns the quizzes (Quiz.adminId); no handler of the model
\* writes the Quiz collection.
QuizAdminId == "adm"

\* new Assignment({ ... }) with the defaults of the handler and of the
\* schema; subgroup has `trim: true`.  createdAt and updatedAt are the time
\* of the save.
newAssignment(adminId, body, time) ==
  [quizId |-> body.quizId, classId |-> body.classId, adminId |-> adminId,
   dueDate |-> NewDate(body.dueDate)[1],
   timeLimit |-> body.timeLimit,
   weightage |-> IF Given(body, "weightage") THEN body.weightage ELSE 0,
   weightageType |->
     IF Given(body, "weightageType") /\ body.weightageType # ""
       THEN body.weightageType ELSE "percentage",
   subgroup |-> IF Given(body, "subgroup") THEN Trim(body.subgroup) ELSE NoString,
   subclasses |-> IF Given(body, "subclasses") THEN body.subclasses ELSE <<>>,
   submissions |-> <<>>,
   updatedAt |-> time,
   __v |-> 0]

\* What the validation of newAssignment.save() refuses: a dueDate that is no
\* date, a weightage under the `min` of the schema, a weightageType outside
\* its `enum`.
newAssignmentInvalid(body) ==
  \/ NewDate(body.dueDate) = <<>>
  \/ Given(body, "weightage") /\ body.weightage < 0
  \/ /\ Given(body, "weightageType") /\ body.weightageType # ""
     /\ body.weightageType \notin {"percentage", "marks"}

\* if (subgroup) and if (subclasses && ... subclasses.length > 0)
hasSubgroup(body) == Given(body, "subgroup") /\ Truthy(body.subgroup)
hasSubclasses(body) == Given(body, "subclasses") /\ body.subclasses # <<>>

\* The validation of the body and Quiz.findOne({ _id: quizId, adminId }).
\* A timeLimit that is not given, or 0, is falsy.
createAssignment_findQuiz(userId, body) ==
  /\ BagCardinality(reqs) < MaxInFlight
  /\ LET answer(status, message) ==
           /\ resp' = Response("createAssignment", userId, "", status, message)
           /\ UNCHANGED reqs
     IN  IF \/ ~Given(body, "quizId") \/ ~Given(body, "classId")
            \/ ~Given(body, "dueDate") \/ ~TextTruthy(body.dueDate)
            \/ ~Given(body, "timeLimit") \/ body.timeLimit = 0
           THEN answer(400, MsgAllFieldsRequired)
         ELSE IF body.quizId \notin DOMAIN quizzes \/ QuizAdminId # userId
           THEN answer(404, MsgQuizNotFoundOrNotOwner)
         ELSE /\ Suspend([op |-> "createAssignment", pc |-> "findClass",
                          caller |-> userId, target |-> "", body |-> body])
              /\ resp' = NoResponse
  /\ UNCHANGED <<now, users, quizzes, classes, assignments, lateSetting>>

\* Class.findOne({ _id: classId, adminId }), to the next await.
createAssignment_findClass(q) ==
  /\ q \in InFlight /\ q.op = "createAssignment" /\ q.pc = "findClass"
  /\ IF \/ q.body.classId \notin DOMAIN classes
        \/ classes[q.body.classId].adminId # q.caller
       THEN /\ Finish(q)
            /\ resp' = Response("createAssignment", q.caller, "", 404,
                                MsgClassNotFoundOrNotOwner)
       ELSE /\ Resume(q, [q EXCEPT
                            !.pc = IF hasSubgroup(q.body) THEN "findBySubgroup"
                                   ELSE IF hasSubclasses(q.body)
                                     THEN "findBySubclasses"
                                   ELSE "save"])
            /\ resp' = NoResponse
  /\ UNCHANGED <<now, users, quizzes, classes, assignments, lateSetting>>

\* User.find by the subgroup: filteredStudents, which nothing reads.
createAssignment_findBySubgroup(q) ==
  /\ q \in InFlight /\ q.op = "createAssignment" /\ q.pc = "findBySubgroup"
  /\ Resume(q, [q EXCEPT
                  !.pc = IF hasSubclasses(q.body) THEN "findBySubclasses"
                         ELSE "save"])
  /\ resp' = NoResponse
  /\ UNCHANGED <<now, users, quizzes, classes, assignments, lateSetting>>

\* User.find by the subclasses: filteredStudents, which nothing reads.
createAssignment_findBySubclasses(q) ==
  /\ q \in InFlight /\ q.op = "createAssignment" /\ q.pc = "findBySubclasses"
  /\ Resume(q, [q EXCEPT !.pc = "save"])
  /\ resp' = NoResponse
  /\ UNCHANGED <<now, users, quizzes, classes, assignments, lateSetting>>

\* newAssignment.save(): the document is stored under a new _id.
createAssignment_save(q) ==
  /\ q \in InFlight /\ q.op = "createAssignment" /\ q.pc = "save"
  /\ IF newAssignmentInvalid(q.body)
       THEN /\ Finish(q)
            /\ resp' = Response("createAssignment", q.caller, "", 500,
                                MsgCreateAssignmentFailed)
            /\ UNCHANGED <<assignments, created>>
       ELSE \E id \in AssignmentIds \ created :
              /\ assignments' =
                   (id :> newAssignment(q.caller, q.body, now)) @@ assignments
              /\ created' = created \cup {id}
              /\ Resume(q, [op |-> "createAssignment", pc |-> "populateQuiz",
                            caller |-> q.caller, target |-> id])
              /\ resp' = NoResponse
  /\ UNCHANGED <<now, users, quizzes, classes, lateSetting>>

\* newAssignment.populate('quizId', 'title questions')
createAssignment_populateQuiz(q) ==
  /\ q \in InFlight /\ q.op = "createAssignment" /\ q.pc = "populateQuiz"
  /\ Resume(q, [q EXCEPT !.pc = "populateClass"])
  /\ resp' = NoResponse
  /\ UNCHANGED <<now, users, quizzes, classes, assignments, lateSetting>>

\* newAssignment.populate('classId', 'title courseCode') and the response.
createAssignment_populateClass(q) ==
  /\ q \in InFlight /\ q.op = "createAssignment" /\ q.pc = "populateClass"
  /\ Finish(q)
  /\ resp' = Response("createAssignment", q.caller, q.target, 201,
                      MsgAssignmentCreated)
  /\ UNCHANGED <<now, users, quizzes, classes, assignments, lateSetting>>


(***************************************************************************)
(* deleteAssignment: DELETE /api/assignments/:id                           *)
(***************************************************************************)
MsgDeleteAssignmentForbidden == "Not authorized to delete this assignment"
MsgAssignmentDeleted == "Assignment deleted successfully"

deleteAssignment_find(userId, id) ==
  /\ BagCardinality(reqs) < MaxInFlight
  /\ IF id \notin DOMAIN assignments
       THEN /\ resp' = Response("deleteAssignment", userId, id, 404,
                                MsgAssignmentNotFound)
            /\ UNCHANGED reqs
       ELSE IF assignments[id].adminId # userId
         THEN /\ resp' = Response("deleteAssignment", userId, id, 403,
                                  MsgDeleteAssignmentForbidden)
              /\ UNCHANGED reqs
         ELSE /\ Suspend([op |-> "deleteAssignment", pc |-> "delete",
                          caller |-> userId, target |-> id])
              /\ resp' = NoResponse
  /\ UNCHANGED <<now, users, quizzes, classes, assignments, lateSetting>>

\* Assignment.findByIdAndDelete(id), which deletes nothing when the
\* assignment is no longer stored, and the response.
deleteAssignment_delete(q) ==
  /\ q \in InFlight /\ q.op = "deleteAssignment" /\ q.pc = "delete"
  /\ Finish(q)
  /\ assignments' = [a \in (DOMAIN assignments) \ {q.target} |-> assignments[a]]
  /\ resp' = Response("deleteAssignment", q.caller, q.target, 200,
                      MsgAssignmentDeleted)
  /\ UNCHANGED <<now, users, quizzes, classes, lateSetting>>

\* Time passes.
Tick ==
  /\ now < MaxTime
  /\ now' = now + 1
  /\ resp' = NoResponse
  /\ UNCHANGED <<users, quizzes, classes, assignments, reqs, lateSetting>>


(***************************************************************************)
(* The application: one class with one assignment, and the requests of     *)
(* its admin, of another admin and of two candidates, in any interleaving. *)
(***************************************************************************)
InitUsers ==
  [u \in UserIds |->
     IF u = "adm" THEN [role |-> "admin", registrationNumber |-> NoString]
     ELSE IF u = "eve" THEN [role |-> "admin", registrationNumber |-> NoString]
     ELSE IF u = "u1"
       THEN [role |-> "candidate",
             registrationNumber |-> <<"2", "2", "B", "C", "E", "1">>]
       ELSE [role |-> "candidate",
             registrationNumber |-> <<"2", "2", "M", "I", "M", "1">>]]

\* The quiz: a multiple-choice question and a short-answer question.
InitQuizzes ==
  [z \in {"qz1"} |->
     <<[id |-> "q1", type |-> "mcq", answer |-> <<"A">>],
       [id |-> "q2", type |-> "short_answer", answer |-> <<"t">>]>>]

\* The answers a request carries: every question answered (the second one
\* right only up to case and blanks), and the second one left as TakeQuizPage
\* initialises it.
AnswerSheets ==
  {[q \in {"q1", "q2"} |-> IF q = "q1" THEN <<"A">> ELSE <<" ", "T">>],
   [q \in {"q1", "q2"} |-> IF q = "q1" THEN <<"B">> ELSE NoString]}

DueDate == 1

\* The course code of the classes and the texts that Math.random() can give
\* an invite code.
CourseCode == <<"m", "a">>
Randoms == {<<"1">>, <<"2">>}
InviteCode == inviteCodeOf(CourseCode, <<"1">>)

\* The body of the createAssignment that made an assignment of the quiz.
AssignmentBody(classId, dueDate, subgroup) ==
  [quizId |-> "qz1", classId |-> classId, dueDate |-> DateText(dueDate),
   timeLimit |-> 30, subgroup |-> subgroup]

\* The assignment that createAssignment stored at time 0 for the admin.
AssignmentOf(classId, dueDate, subgroup) ==
  newAssignment("adm", AssignmentBody(classId, dueDate, subgroup), 0)

Titles == {"Algebra", "Logic"}
\* The bodies of updateClass: a title, one of them empty, or a setting.
UpdateBodies ==
  {[title |-> t] : t \in Titles \cup {""}}
    \cup {[allowLateSubmissions |-> b] : b \in BOOLEAN}
    \cup {[showResults |-> TRUE]}

\* The bodies that change the settings of the class.
SettingBodies == {b \in UpdateBodies : "title" \notin DOMAIN b}

\* A class in which both candidates are enrolled (each joined with the invite
\* code), with its assignment: the state from which quizzes are submitted.
EnrolledClass ==
  [newClass("Algebra", CourseCode, "", "adm", InviteCode) EXCEPT
     !.students = <<"u1", "u2">>, !.__v = 2]

Init ==
  /\ now = 0
  /\ users = InitUsers
  /\ quizzes = InitQuizzes
  /\ classes = [c \in {"c1"} |-> EnrolledClass]
  /\ assignments =
       [a \in {"a1"} |-> AssignmentOf("c1", DueDate, NoString)]
  /\ reqs = EmptyBag
  /\ resp = NoResponse
  /\ lateSetting = [c \in ClassIds |-> "unset"]
  /\ browser = NoBrowser
  /\ created = {"c1", "a1"}

\* Submitting quizzes while time passes and the admin changes the settings of
\* the class.
Next ==
  \/ \E u \in {"u1", "u2", "eve"}, a \in AssignmentIds, s \in AnswerSheets :
       submitQuiz_findAssignment(u, a, [answers |-> s]) /\ UNCHANGED <<browser, created>>
  \/ \E q \in InFlight : submitQuiz_check(q) /\ UNCHANGED <<browser, created>>
  \/ \E q \in InFlight : submitQuiz_save(q) /\ UNCHANGED <<browser, created>>
  \/ \E b \in SettingBodies :
       updateClass_find("adm", "c1", b) /\ UNCHANGED <<browser, created>>
  \/ \E q \in InFlight : updateClass_update(q) /\ UNCHANGED <<browser, created>>
  \/ Tick /\ UNCHANGED <<browser, created>>

Spec == Init /\ [][Next]_vars


(***************************************************************************)
(* Properties of submitQuiz, checked under Spec                            *)
(***************************************************************************)
\* The step resumes request q: one copy of it leaves the requests in flight.
Resumed(q) == q \in InFlight /\ CopiesIn(q, reqs') = CopiesIn(q, reqs) - 1

enrolledIn(classId, userId) ==
  classId \in DOMAIN classes /\ studentsInclude(classes[classId], userId)

\* C1: in every reachable state, an assignment holds at most one submission of
\* each candidate.
C1_AtMostOneSubmissionPerCandidate ==
  \A a \in DOMAIN assignments : \A u \in UserIds :
     Cardinality(submissionsOf(assignments[a], u)) <= 1

\* C5: once the admin has set allowLateSubmissions to true through updateClass,
\* a submitQuiz after the due date by an enrolled candidate without a submission
\* is not turned away as past due, and the submission it stores is marked late.
C5_LateSubmissionAcceptedOnceAllowed ==
  (/\ resp.op = "submitQuiz"
   /\ resp.target \in DOMAIN assignments
   /\ lateSetting[assignments[resp.target].classId] = "on")
  => /\ resp.message # MsgPastDue
     /\ (resp.status = 200 /\ resp.isLateSubmission) =>
          LET stored == assignments[resp.target].submissions
          IN  FieldTruthy(stored[Len(stored)], "isLateSubmission")


classAllowsLate(classId) ==
  classId \in DOMAIN classes
    /\ FieldTruthy(classes[classId], "allowLateSubmissions")

\* The step takes request q from its await after Assignment.findById (the
\* moment the request reads the clock), or from its await in save().
ChecksSubmit(q) ==
  q \in InFlight /\ q.op = "submitQuiz" /\ q.pc = "findClass" /\ Resumed(q)
SavesSubmit(q) ==
  q \in InFlight /\ q.op = "submitQuiz" /\ q.pc = "save" /\ Resumed(q)
\* The requests that the step leaves waiting for save().
Continuing ==
  {q2 \in BagToSet(reqs') :
     q2.op = "submitQuiz" /\ q2.pc = "save"
       /\ CopiesIn(q2, reqs') > CopiesIn(q2, reqs)}

\* C4 as stated: every submitQuiz that reads the clock after the due date while
\* the class does not allow late submissions is answered 403 'past due' and
\* records nothing.
C4_EveryPastDueSubmitAnswered403 ==
  [][\A q \in InFlight :
       (/\ ChecksSubmit(q)
        /\ now > q.assignment.dueDate
        /\ ~classAllowsLate(q.assignment.classId))
       => /\ resp'.status = 403 /\ resp'.message = MsgPastDue
          /\ assignments' = assignments]_vars

\* C4, amended: a submitQuiz after the due date, while the class does not allow
\* late submissions, records nothing, and is answered 403 'past due' when its
\* caller is enrolled and the assignment it loaded holds no submission of the
\* caller; a submitQuiz at or before the due date is never answered 'past due',
\* and what it stores and answers is not marked late.
C4_PastDueRejectedOnTimeNotLate ==
  [][\A q \in InFlight :
       /\ ChecksSubmit(q) =>
            LET late == now > q.assignment.dueDate
                allowed == classAllowsLate(q.assignment.classId)
                eligible == /\ enrolledIn(q.assignment.classId, q.caller)
                            /\ submissionsOf(q.assignment, q.caller) = {}
            IN  /\ (late /\ ~allowed) =>
                     /\ assignments' = assignments
                     /\ Continuing = {}
                     /\ eligible =>
                          (resp'.status = 403 /\ resp'.message = MsgPastDue)
                /\ ~late =>
                     /\ resp'.message # MsgPastDue
                     /\ eligible => Continuing # {}
                     /\ \A q2 \in Continuing :
                          /\ ~q2.submission.isLateSubmission
                          /\ q2.submission.submittedAt <= q.assignment.dueDate
       /\ (SavesSubmit(q) /\ resp'.status = 200
             /\ q.submission.submittedAt <= q.assignment.dueDate) =>
            LET stored == assignments'[q.target].submissions
            IN  /\ resp'.isLateSubmission = FALSE
                /\ resp'.message = MsgSubmitted
                /\ ~FieldTruthy(stored[Len(stored)], "isLateSubmission")]_vars

\* C4's case: a submission after the due date has just been turned away, and
\* one made in time is stored.
C4_Witness ==
  /\ resp.op = "submitQuiz" /\ resp.message = MsgPastDue
  /\ now > assignments[resp.target].dueDate
  /\ \E i \in DOMAIN assignments[resp.target].submissions :
       assignments[resp.target].submissions[i].submittedAt
         <= assignments[resp.target].dueDate

\* C8: a step of a submitQuiz request changes the submissions only when it
\* answers 200, and then it appends exactly one submission, of the caller, to
\* the assignment named; an unknown assignment is answered 404, a caller who is
\* not a student of the class 403, one who has submitted 400, one who is late
\* without permission 403, and none of these changes anything.
C8_SubmitStep ==
  \/ resp'.op = "submitQuiz"
  \/ \E q \in InFlight : ChecksSubmit(q) \/ SavesSubmit(q)
  \/ \E q2 \in BagToSet(reqs') :
       q2.op = "submitQuiz" /\ CopiesIn(q2, reqs') > CopiesIn(q2, reqs)

C8_OnlyAnAcceptedSubmitAddsOne ==
  [][C8_SubmitStep =>
       /\ IF resp'.op = "submitQuiz" /\ resp'.status = 200
            THEN /\ resp'.target \in DOMAIN assignments
                 /\ DOMAIN assignments' = DOMAIN assignments
                 /\ \A a \in DOMAIN assignments :
                      IF a = resp'.target
                        THEN LET old == assignments[a].submissions
                                 new == assignments'[a].submissions
                             IN  /\ Len(new) = Len(old) + 1
                                 /\ SubSeq(new, 1, Len(old)) = old
                                 /\ new[Len(new)].candidateId = resp'.caller
                                 /\ [assignments'[a] EXCEPT
                                       !.submissions = old,
                                       !.updatedAt = assignments[a].updatedAt,
                                       !.__v = assignments[a].__v]
                                      = assignments[a]
                        ELSE assignments'[a] = assignments[a]
            ELSE assignments' = assignments
       /\ (resp'.op = "submitQuiz" /\ resp'.target \notin DOMAIN assignments)
            => resp'.status = 404 /\ resp'.message = MsgAssignmentNotFound
       /\ \A q \in InFlight : ChecksSubmit(q) =>
            IF ~enrolledIn(q.assignment.classId, q.caller)
              THEN resp'.status = 403 /\ resp'.message = MsgNotEnrolled
            ELSE IF submissionsOf(q.assignment, q.caller) # {}
              THEN resp'.status = 400 /\ resp'.message = MsgAlreadySubmitted
            ELSE IF now > q.assignment.dueDate
                      /\ ~classAllowsLate(q.assignment.classId)
              THEN resp'.status = 403 /\ resp'.message = MsgPastDue
            ELSE resp' = NoResponse /\ Continuing # {}]_vars

\* C8's case: an accepted submission has just been added behind another one,
\* after requests of the same run were answered 403 and 400.
C8_Witness ==
  /\ resp.op = "submitQuiz" /\ resp.status = 200
  /\ Len(assignments[resp.target].submissions) >= 2
  /\ assignments[resp.target].submissions[
       Len(assignments[resp.target].submissions)].candidateId = resp.caller



(***************************************************************************)
(* Joining a class: SpecJoin                                               *)
(***************************************************************************)
\* The invite codes that requests carry: the codes a class can have, one of
\* them typed in lower case, and none.
JoinCodes ==
  {inviteCodeOf(CourseCode, r) : r \in Randoms}
    \cup {ToLowerCase(InviteCode), NoString}

\* The bodies of createClass: a class of the course, and one without a course
\* code.
ClassBodies ==
  {[title |-> "Logic", courseCode |-> CourseCode], [title |-> "Logic"]}

InitJoin ==
  /\ now = 0
  /\ users = InitUsers
  /\ quizzes = InitQuizzes
  /\ classes = [c \in {"c1"} |->
                  newClass("Algebra", CourseCode, "", "adm", InviteCode)]
  /\ assignments = [a \in {"a1"} |-> AssignmentOf("c1", DueDate, NoString)]
  /\ reqs = EmptyBag
  /\ resp = NoResponse
  /\ lateSetting = [c \in ClassIds |-> "unset"]
  /\ browser = NoBrowser
  /\ created = {"c1", "a1"}

\* Users join with an invite code while the admin of the class renews the
\* code, removes students, deletes the class and creates classes.  No
\* assignment has a submission, so a removal ends with its Assignment.find.
NextJoin ==
  \/ \E u \in {"u1", "u2", "adm"}, k \in JoinCodes :
       joinClass_find(u, k) /\ UNCHANGED <<browser, created>>
  \/ \E q \in InFlight : joinClass_save(q) /\ UNCHANGED <<browser, created>>
  \/ \E q \in InFlight : joinClass_populate(q) /\ UNCHANGED <<browser, created>>
  \/ \E r \in Randoms :
       regenerateInvite_find("adm", "c1", r) /\ UNCHANGED <<browser, created>>
  \/ \E q \in InFlight : regenerateInvite_save(q) /\ UNCHANGED <<browser, created>>
  \/ \E st \in {"u1", "u2"} :
       removeStudentFromClass_find("adm", "c1", st)
         /\ UNCHANGED <<browser, created>>
  \/ \E q \in InFlight :
       removeStudentFromClass_saveClass(q) /\ UNCHANGED <<browser, created>>
  \/ \E q \in InFlight :
       removeStudentFromClass_findAssignments(q)
         /\ UNCHANGED <<browser, created>>
  \/ deleteClass_find("adm", "c1") /\ UNCHANGED <<browser, created>>
  \/ \E q \in InFlight : deleteClass_delete(q) /\ UNCHANGED <<browser, created>>
  \/ \E b \in ClassBodies :
       createClass("adm", b, <<"2">>) /\ UNCHANGED browser

SpecJoin == InitJoin /\ [][NextJoin]_vars

\* C9: in every reachable state, no student is twice in the students of a
\* class.
C9_NoStudentTwice ==
  \A c \in DOMAIN classes : \A i, j \in DOMAIN classes[c].students :
     classes[c].students[i] = classes[c].students[j] => i = j


(***************************************************************************)
(* The routes of the class creator: SpecAdmin                              *)
(***************************************************************************)
\* The submission that an accepted submitQuiz of `candidateId` stores.
storedSubmission(candidateId, answers, submittedAt) ==
  pushedSubmission(buildSubmission(candidateId, InitQuizzes["qz1"], answers,
                                   FALSE, submittedAt))

FullSheet == [q \in {"q1", "q2"} |-> IF q = "q1" THEN <<"A">> ELSE <<" ", "T">>]

\* The requests on the creator's routes, as caller and class: the first class
\* by its creator, by another admin and by a candidate; the second class and
\* a class that is not stored by the creator of the first.  Then the bodies
\* of updateClass.
AdminRequests ==
  {<<"adm", "c1">>, <<"eve", "c1">>, <<"u1", "c1">>, <<"adm", "c2">>,
   <<"adm", "c3">>}
AdminBodies ==
  {[title |-> "Logic"], [title |-> ""], [allowLateSubmissions |-> TRUE]}

\* Two classes of two admins, each with an assignment; in the first, one or
\* both candidates have joined, and the first of them has submitted.  The
\* version of a document counts the pushes onto its array.
InitAdmin ==
  /\ now = 0
  /\ users = InitUsers
  /\ quizzes = InitQuizzes
  /\ \E students \in {<<"u1">>, <<"u1", "u2">>} :
       /\ classes =
            [c \in {"c1", "c2"} |->
               IF c = "c1"
                 THEN [newClass("Algebra", CourseCode, "", "adm", InviteCode)
                         EXCEPT !.students = students, !.__v = Len(students)]
                 ELSE newClass("Logic", CourseCode, "", "eve",
                               inviteCodeOf(CourseCode, <<"2">>))]
       /\ \E submitted \in {{"u1"}} :
            assignments =
              [a \in {"a1", "a2"} |->
                 IF a = "a1"
                   THEN [AssignmentOf("c1", DueDate, NoString)
                           EXCEPT !.submissions =
                                    SelectSeq(
                                      [i \in DOMAIN students |->
                                         storedSubmission(students[i],
                                                          FullSheet, 0)],
                                      LAMBDA sub : sub.candidateId \in submitted),
                                  !.__v = Cardinality(submitted)]
                   ELSE [AssignmentOf("c2", DueDate, NoString)
                           EXCEPT !.adminId = "eve"]]
  /\ reqs = EmptyBag
  /\ resp = NoResponse
  /\ lateSetting = [c \in ClassIds |-> "unset"]
  /\ browser = NoBrowser
  /\ created = {"c1", "c2", "a1", "a2"}

NextAdmin ==
  \/ \E r \in AdminRequests, b \in AdminBodies :
       updateClass_find(r[1], r[2], b) /\ UNCHANGED <<browser, created>>
  \/ \E q \in InFlight : updateClass_update(q) /\ UNCHANGED <<browser, created>>
  \/ \E r \in AdminRequests :
       deleteClass_find(r[1], r[2]) /\ UNCHANGED <<browser, created>>
  \/ \E q \in InFlight : deleteClass_delete(q) /\ UNCHANGED <<browser, created>>
  \/ \E r \in AdminRequests, st \in {"u1", "u2", ""} :
       removeStudentFromClass_find(r[1], r[2], st) /\ UNCHANGED <<browser, created>>
  \/ \E q \in InFlight :
       removeStudentFromClass_saveClass(q) /\ UNCHANGED <<browser, created>>
  \/ \E q \in InFlight :
       removeStudentFromClass_findAssignments(q)
         /\ UNCHANGED <<browser, created>>
  \/ \E q \in InFlight :
       removeStudentFromClass_saveAssignment(q)
         /\ UNCHANGED <<browser, created>>
  \/ \E r \in AdminRequests, random \in Randoms :
       regenerateInvite_find(r[1], r[2], random) /\ UNCHANGED <<browser, created>>
  \/ \E q \in InFlight : regenerateInvite_save(q) /\ UNCHANGED <<browser, created>>

SpecAdmin == InitAdmin /\ [][NextAdmin]_vars

CreatorRoutes ==
  {"updateClass", "deleteClass", "removeStudentFromClass", "regenerateInvite"}

\* The step answers a request on one of the creator's routes, made for an
\* existing class by a user who is not its creator.
AnswersNonCreator ==
  /\ resp'.op \in CreatorRoutes
  /\ resp'.target \in DOMAIN classes
  /\ classes[resp'.target].adminId # resp'.caller

\* C10 as stated: every such request is answered 403 and changes neither the
\* classes nor the submissions.
C10_NonCreatorAlwaysAnswered403 ==
  [][AnswersNonCreator =>
       /\ resp'.status = 403
       /\ classes' = classes
       /\ assignments' = assignments]_vars

\* C10, amended: every such request leaves the classes and the submissions as
\* they were, and is answered 403, except a removeStudentFromClass that carries
\* no studentId, which is answered 400; and no request of a user who is not the
\* creator of the class it names goes beyond its first query.
C10_NonCreatorChangesNothing ==
  /\ [][AnswersNonCreator =>
          /\ classes' = classes
          /\ assignments' = assignments
          /\ IF resp'.op = "removeStudentFromClass"
                  /\ resp'.message = MsgStudentIdRequired
               THEN resp'.status = 400
               ELSE resp'.status = 403]_vars
  /\ [](\A q \in InFlight :
          (q.op \in CreatorRoutes /\ q.target \in DOMAIN classes)
            => classes[q.target].adminId = q.caller)

\* C10's case: a user who is not the creator has just been refused the
\* deletion of a class that has students and a submission.
C10_Witness ==
  /\ resp.op = "deleteClass" /\ resp.status = 403
  /\ resp.target \in DOMAIN classes
  /\ classes[resp.target].adminId # resp.caller
  /\ classes[resp.target].students # <<>>
  /\ \E a \in DOMAIN assignments :
       assignments[a].classId = resp.target /\ assignments[a].submissions # <<>>


(***************************************************************************)
(* What candidates are sent: SpecRead                                      *)
(***************************************************************************)
\* Registration numbers: those of the controller's comments, numbers that only
\* the last pattern matches or none does, and every string of at most
\* MaxRegLen characters of RegChars.
MaxRegLen == 3
RegChars == {"2", "B", "C", "b"}
RECURSIVE StringsUpTo(_, _)
StringsUpTo(chars, n) ==
  IF n = 0 THEN {<<>>}
  ELSE LET shorter == StringsUpTo(chars, n - 1)
       IN  shorter \cup {Append(t, c) : t \in shorter, c \in chars}

RegNumbers ==
  {<<"2", "2", "B", "C", "E", "1", "0", "1", "0", "0">>,
   <<"2", "0", "2", "4", "B", "C", "E", "0", "0", "1">>,
   <<"B", "C", "E", "0", "0", "1">>,
   <<"2", "2", "b", "c", "e", "1", "0", "1">>,
   <<" ", "2", "2", "M", "I", "M", "1", " ">>,
   <<"A", "B", "C", "T", "E", "1">>,
   <<"2", "4", "B", "1", "M", "I", "M", "2">>,
   <<"2", "2", "B", "C", "E", "1", "a">>}
    \cup StringsUpTo(RegChars, MaxRegLen)

\* The subgroup that the admin typed; the schema stores it trimmed.
Subgroups ==
  {NoString,
   <<"B", "C", "E">>,
   <<"b", "c", "e">>,
   <<"B", "C">>,
   <<" ", "M", "I", "M", " ">>,
   <<"B", "C", "E", ",", "M", "I", "M">>,
   <<"b", "c", ",", " ", "m", "i", "m">>,
   <<"A", "B", "C", "T", ",">>,
   <<"A", "B", "C", "T", "E">>,
   <<"C", "B">>}

InitRead ==
  /\ now \in {0, DueDate + 1}
  /\ \E reg \in RegNumbers :
       users = [InitUsers EXCEPT !["u1"].registrationNumber = reg]
  /\ quizzes = InitQuizzes
  /\ classes =
       [c \in {"c1"} |->
          [newClass("Algebra", CourseCode, "", "adm", InviteCode) EXCEPT
             !.students = <<"u1">>, !.__v = 1]]
  /\ \E subgroup \in Subgroups :
       \E submissions \in {<<>>, <<storedSubmission("u1", FullSheet, 0)>>} :
         assignments =
           [a \in {"a1"} |->
              [AssignmentOf("c1", DueDate, subgroup)
                 EXCEPT !.submissions = submissions,
                        !.__v = Len(submissions)]]
  /\ reqs = EmptyBag
  /\ resp = NoResponse
  /\ lateSetting = [c \in ClassIds |-> "unset"]
  /\ browser = NoBrowser
  /\ created = {"c1", "a1"}

\* Nothing is written here, so a request reads the same whatever runs between
\* its queries: the requests are made one at a time.
NextRead ==
  \/ /\ reqs = EmptyBag
     /\ \E u \in UserIds, a \in {"a1", "a2"} :
          getSingleAssignment_findAssignment(u, a)
     /\ UNCHANGED <<browser, created>>
  \/ \E q \in InFlight :
       getSingleAssignment_findClass(q) /\ UNCHANGED <<browser, created>>
  \/ \E q \in InFlight :
       getSingleAssignment_findUser(q) /\ UNCHANGED <<browser, created>>
  \/ \E q \in InFlight :
       getSingleAssignment_findClassInfo(q) /\ UNCHANGED <<browser, created>>
  \/ /\ reqs = EmptyBag
     /\ \E u \in UserIds, c \in {"c1", "c2"} :
          getCandidateAssignments_findClass(u, c)
     /\ UNCHANGED <<browser, created>>
  \/ \E q \in InFlight :
       getCandidateAssignments_findAssignments(q)
         /\ UNCHANGED <<browser, created>>
  \/ \E q \in InFlight :
       getCandidateAssignments_findUser(q) /\ UNCHANGED <<browser, created>>

SpecRead == InitRead /\ [][NextRead]_vars

\* C2: no response of getSingleAssignment or getCandidateAssignments carries
\* the `answer` of a question of the quiz.
C2_NoAnswerInCandidateResponse ==
  /\ (resp.op = "getSingleAssignment" /\ resp.status = 200) =>
       \A i \in DOMAIN resp.questions : "answer" \notin DOMAIN resp.questions[i]
  /\ (resp.op = "getCandidateAssignments" /\ resp.status = 200) =>
       \A i \in DOMAIN resp.data :
         \A j \in DOMAIN resp.data[i].quizId.questions :
           "answer" \notin DOMAIN resp.data[i].quizId.questions[j]

\* The branch as the claim describes it: the first place where two capital
\* letters stand together, with the capitals that follow, four at most.
C7_Branch(reg) ==
  LET capitals(i, k) == i + k - 1 <= Len(reg)
                          /\ \A j \in i..(i + k - 1) : IsUpperChar(reg[j])
      places == {i \in DOMAIN reg : capitals(i, 2)}
  IN  IF places = {} THEN <<>>
      ELSE LET first == CHOOSE i \in places : \A j \in places : i <= j
               longest == CHOOSE k \in 2..4 :
                            capitals(first, k)
                              /\ \A m \in 2..4 : capitals(first, m) => m <= k
           IN  SubSeq(reg, first, first + longest - 1)

\* The entries of a comma-separated list.
C7_Entries(list) ==
  {SubSeq(list, i, j) :
     <<i, j>> \in {p \in (1..(Len(list) + 1)) \X (0..Len(list)) :
                     /\ p[2] >= p[1] - 1
                     /\ \A k \in p[1]..p[2] : list[k] # ","
                     /\ (p[1] = 1 \/ list[p[1] - 1] = ",")
                     /\ (p[2] = Len(list) \/ list[p[2] + 1] = ",")}}

C7_Admitted(subgroup, reg) ==
  \/ subgroup = <<>>
  \/ /\ C7_Branch(reg) # <<>>
     /\ \/ C7_Branch(reg) = ToUpperCase(subgroup)
        \/ /\ IncludesChar(subgroup, ",")
           /\ \E entry \in C7_Entries(subgroup) :
                C7_Branch(reg) = Trim(ToUpperCase(entry))

\* C7: getSingleAssignment answers a candidate enrolled in the class of the
\* assignment with the quiz when the subgroup is empty or names the branch of
\* the candidate's registration number, and with 403 'subgroup mismatch'
\* otherwise.
C7_QuizReturnedIffBranchInSubgroup ==
  (/\ resp.op = "getSingleAssignment"
   /\ resp.target \in DOMAIN assignments
   /\ users[resp.caller].role = "candidate"
   /\ enrolledIn(assignments[resp.target].classId, resp.caller))
  => IF C7_Admitted(assignments[resp.target].subgroup,
                    users[resp.caller].registrationNumber)
       THEN resp.status = 200
       ELSE resp.status = 403 /\ resp.message = MsgSubgroupMismatch

\* C7's case: a candidate whose number only the last pattern matches has been
\* sent the quiz of an assignment for a list of branches.
C7_Witness ==
  /\ resp.op = "getSingleAssignment" /\ resp.status = 200
  /\ IncludesChar(assignments[resp.target].subgroup, ",")
  /\ MatchDigitsBranchDigits(users[resp.caller].registrationNumber, 2) = NoString
  /\ Len(resp.questions) = 2


(***************************************************************************)
(* Grading: SpecGrade                                                      *)
(***************************************************************************)
\* Quizzes of at most MaxQuestions questions; the stored answers differ from
\* the submitted ones in case and in blanks.
MaxQuestions == 3
QuestionIds == <<"q1", "q2", "q3", "q4", "q5">>
QuestionTypes == {"mcq", "short_answer"}
StoredAnswers == {<<"A">>, <<" ", "a">>}
SubmittedAnswers == {NoString, <<"A">>, <<"a">>, <<"A", " ">>}

GradeQuizzes ==
  UNION {{[i \in 1..n |-> [id |-> QuestionIds[i], type |-> types[i],
                           answer |-> stored[i]]] :
            types \in [1..n -> QuestionTypes], stored \in [1..n -> StoredAnswers]} :
           n \in 0..MaxQuestions}

\* req.body.answers: some of the questions of the quiz, each with an answer or
\* with the empty string that TakeQuizPage starts from.
GradeSheets(questions) ==
  UNION {[ids -> SubmittedAnswers] :
           ids \in SUBSET {questions[i].id : i \in DOMAIN questions}}

InitGrade ==
  /\ now = 0
  /\ users = InitUsers
  /\ \E questions \in GradeQuizzes : quizzes = [z \in {"qz1"} |-> questions]
  /\ classes =
       [c \in {"c1"} |->
          [newClass("Algebra", CourseCode, "", "adm", InviteCode) EXCEPT
             !.students = <<"u1">>, !.__v = 1]]
  /\ assignments =
       [a \in {"a1"} |-> AssignmentOf("c1", DueDate, NoString)]
  /\ reqs = EmptyBag
  /\ resp = NoResponse
  /\ lateSetting = [c \in ClassIds |-> "unset"]
  /\ browser = NoBrowser
  /\ created = {"c1", "a1"}

\* One candidate submits one quiz, in time.
NextGrade ==
  \/ /\ reqs = EmptyBag
     /\ assignments["a1"].submissions = <<>>
     /\ \E answers \in GradeSheets(quizzes["qz1"]) :
          submitQuiz_findAssignment("u1", "a1", [answers |-> answers])
     /\ UNCHANGED <<browser, created>>
  \/ \E q \in InFlight : submitQuiz_check(q) /\ UNCHANGED <<browser, created>>
  \/ \E q \in InFlight : submitQuiz_save(q) /\ UNCHANGED <<browser, created>>

SpecGrade == InitGrade /\ [][NextGrade]_vars

\* The claim's rule of matching.
C3_Submitted(question, answers) ==
  question.id \in DOMAIN answers /\ answers[question.id] # <<>>
C3_Matches(question, answers) ==
  /\ C3_Submitted(question, answers)
  /\ IF question.type = "short_answer"
       THEN ToLowerCase(Trim(answers[question.id]))
              = ToLowerCase(Trim(question.answer))
       ELSE answers[question.id] = question.answer

\* What an accepted submitQuiz stores, for the request q that saves: one
\* answer per question of the quiz, in the order of the quiz, marked correct
\* exactly when the question matches, and a score that is `share` of the
\* number c of matching questions and the number n of questions.
C3_Stores(q, share(_, _)) ==
  LET questions == quizzes[q.assignment.quizId]
      n == Len(questions)
      matching == {i \in 1..n : C3_Matches(questions[i], q.answers)}
      submissions == assignments'[q.target].submissions
      stored == submissions[Len(submissions)]
  IN  /\ ~IsNaN(stored.score)
      /\ stored.score = share(Cardinality(matching), n)
      /\ Len(stored.answers) = n
      /\ \A i \in 1..n :
           /\ stored.answers[i].questionId = questions[i].id
           /\ stored.answers[i].isCorrect = (i \in matching)
C3_Accepted(q) ==
  SavesSubmit(q) /\ resp'.op = "submitQuiz" /\ resp'.status = 200

\* C3 as it is stated: the submission that an accepted submitQuiz stores has
\* the score 100 * c / n for c matching questions out of n, and one answer per
\* question of the quiz, in the order of the quiz, marked correct exactly when
\* the question matches.
C3_ScoreIsHundredTimesMatchingOverAll ==
  [][\A q \in InFlight :
       C3_Accepted(q) =>
         C3_Stores(q, LAMBDA c, n : over(NumberOf(100 * c), n))]_vars

\* C3, amended: the score is the Number (c / n) * 100, the quotient taken
\* first; the answers are as stated.
C3_ScoreIsShareOfMatchingAnswers ==
  [][\A q \in InFlight :
       C3_Accepted(q) =>
         C3_Stores(q, LAMBDA c, n : times(over(NumberOf(c), n), 100))]_vars

\* C3's case: a stored submission with one of three questions right, the right
\* one a short answer that differs from the stored answer in case or blanks;
\* its score, between 33 and 34, is not the Number 100 / 3.
C3_Witness ==
  /\ resp.op = "submitQuiz" /\ resp.status = 200
  /\ LET questions == quizzes[assignments[resp.target].quizId]
         submissions == assignments[resp.target].submissions
         stored == submissions[Len(submissions)]
     IN  /\ Len(questions) = 3
         /\ lessOrEqual(NumberOf(33), stored.score)
         /\ lessOrEqual(stored.score, NumberOf(34))
         /\ stored.score # over(NumberOf(100), 3)
         /\ \E i \in DOMAIN questions :
              /\ questions[i].type = "short_answer"
              /\ stored.answers[i].isCorrect
              /\ stored.answers[i].selectedAnswer # questions[i].answer

\* C6: a submitQuiz in time, by an enrolled candidate without a submission,
\* that leaves a question unanswered is answered 200, and what it stores holds
\* the empty string, marked incorrect, for each unanswered question.
C6_UnansweredQuestionStoredAsIncorrect ==
  [][\A q \in InFlight :
       (/\ SavesSubmit(q)
        /\ q.target \in DOMAIN assignments
        /\ enrolledIn(q.assignment.classId, q.caller)
        /\ submissionsOf(assignments[q.target], q.caller) = {}
        /\ ~q.submission.isLateSubmission
        /\ \E i \in DOMAIN quizzes[q.assignment.quizId] :
             ~C3_Submitted(quizzes[q.assignment.quizId][i], q.answers))
       => /\ resp'.status = 200
          /\ LET questions == quizzes[q.assignment.quizId]
                 submissions == assignments'[q.target].submissions
                 stored == submissions[Len(submissions)]
             IN  \A i \in DOMAIN questions :
                   ~C3_Submitted(questions[i], q.answers) =>
                     /\ stored.answers[i].selectedAnswer = <<>>
                     /\ stored.answers[i].isCorrect = FALSE]_vars



(***************************************************************************)
(* Removing a student: SpecRemove                                          *)
(***************************************************************************)
\* The submissions that an assignment may hold: of one candidate, of both, and
\* two of the same candidate.
SubmissionLists ==
  LET s1 == storedSubmission("u1", FullSheet, 0)
      s2 == storedSubmission("u2", FullSheet, 0)
  IN  {<<>>, <<s1>>, <<s2>>, <<s1, s2>>, <<s2, s1, s1>>}

\* Class c1 of adm with two assignments, class c2 of eve with one; candidate
\* u1 is a student of both classes.  The version of a document counts the
\* pushes onto its array.
InitRemove ==
  /\ now = 0
  /\ users = InitUsers
  /\ quizzes = InitQuizzes
  /\ \E students \in {<<"u1">>, <<"u1", "u2">>, <<"u2", "u1", "u2">>} :
       classes =
         [c \in {"c1", "c2"} |->
            IF c = "c1"
              THEN [newClass("Algebra", CourseCode, "", "adm", InviteCode)
                      EXCEPT !.students = students, !.__v = Len(students)]
              ELSE [newClass("Logic", CourseCode, "", "eve",
                             inviteCodeOf(CourseCode, <<"2">>))
                      EXCEPT !.students = <<"u1">>, !.__v = 1]]
  /\ \E first \in SubmissionLists, third \in SubmissionLists,
        second \in {<<>>, <<storedSubmission("u1", FullSheet, 0)>>} :
       assignments =
         [a \in {"a1", "a2", "a3"} |->
            IF a = "a2"
              THEN [AssignmentOf("c2", DueDate, NoString)
                      EXCEPT !.adminId = "eve", !.submissions = second,
                             !.__v = Len(second)]
              ELSE LET held == IF a = "a1" THEN first ELSE third
                   IN  [AssignmentOf("c1", DueDate, NoString)
                          EXCEPT !.submissions = held, !.__v = Len(held)]]
  /\ reqs = EmptyBag
  /\ resp = NoResponse
  /\ lateSetting = [c \in ClassIds |-> "unset"]
  /\ browser = NoBrowser
  /\ created = {"c1", "c2", "a1", "a2", "a3"}

\* The removals run one at a time, and nothing else runs.
NextRemove ==
  \/ /\ reqs = EmptyBag
     /\ \E u \in {"adm", "eve"}, c \in ClassIds, st \in {"u1", "u2", ""} :
          removeStudentFromClass_find(u, c, st)
     /\ UNCHANGED <<browser, created>>
  \/ \E q \in InFlight :
       removeStudentFromClass_saveClass(q) /\ UNCHANGED <<browser, created>>
  \/ \E q \in InFlight :
       removeStudentFromClass_findAssignments(q)
         /\ UNCHANGED <<browser, created>>
  \/ \E q \in InFlight :
       removeStudentFromClass_saveAssignment(q)
         /\ UNCHANGED <<browser, created>>

SpecRemove == InitRemove /\ [][NextRemove]_vars

\* The submissions of student S that a step takes out of the assignments, as
\* assignment and place.
removedBy(S) ==
  UNION {{<<a, i>> :
            i \in {j \in DOMAIN assignments[a].submissions :
                     assignments[a].submissions[j].candidateId = S}} :
           a \in {b \in DOMAIN assignments : assignments'[b] # assignments[b]}}

\* C11: while no other request runs, a removeStudentFromClass of student S and
\* class C changes nothing but the students of C and the submissions of the
\* assignments of C, from which it takes S and the submissions of S only; the
\* number it keeps, and reports with its 200, grows by the submissions that it
\* takes out; and when it answers 200, S is not a student of C and no
\* assignment of C holds a submission of S.
C11_RemovalCleansTheClassOnly ==
  [][\A q \in InFlight :
       (q.op = "removeStudentFromClass" /\ Resumed(q)) =>
         LET C == q.target
             S == q.studentId
             counted == IF q.pc = "saveAssignment"
                          THEN q.totalSubmissionsRemoved ELSE 0
         IN  /\ DOMAIN classes' = DOMAIN classes
             /\ DOMAIN assignments' = DOMAIN assignments
             /\ \A c \in DOMAIN classes \ {C} : classes'[c] = classes[c]
             /\ classes'[C].students
                  \in {classes[C].students,
                       SelectSeq(classes[C].students, LAMBDA x : x # S)}
             /\ [classes'[C] EXCEPT !.students = classes[C].students,
                                    !.__v = classes[C].__v] = classes[C]
             /\ \A a \in DOMAIN assignments :
                  IF assignments[a].classId = C
                    THEN /\ assignments'[a].submissions
                              \in {assignments[a].submissions,
                                   SelectSeq(assignments[a].submissions,
                                             LAMBDA sub : sub.candidateId # S)}
                         /\ [assignments'[a] EXCEPT
                               !.submissions = assignments[a].submissions,
                               !.updatedAt = assignments[a].updatedAt,
                               !.__v = assignments[a].__v]
                              = assignments[a]
                    ELSE assignments'[a] = assignments[a]
             /\ \A q2 \in BagToSet(reqs') :
                  (q2.op = "removeStudentFromClass"
                     /\ q2.pc = "saveAssignment") =>
                    q2.totalSubmissionsRemoved
                      = counted + Cardinality(removedBy(S))
             /\ resp'.status # 500
             /\ resp'.status = 200 =>
                  /\ resp'.totalSubmissionsRemoved
                       = counted + Cardinality(removedBy(S))
                  /\ ~studentsInclude(classes'[C], S)
                  /\ \A a \in DOMAIN assignments :
                       assignments[a].classId = C
                         => ~hasSubmission(assignments'[a], S)]_vars

\* C11's case: the removal has just deleted submissions of the student from
\* both assignments of the class, where another candidate's submission stays,
\* and the student's submission in the other class is still there.
C11_Witness ==
  /\ resp.op = "removeStudentFromClass" /\ resp.status = 200
  /\ resp.totalSubmissionsRemoved >= 3
  /\ ~studentsInclude(classes[resp.target], resp.studentId)
  /\ \E a \in DOMAIN assignments :
       /\ assignments[a].classId = resp.target
       /\ assignments[a].submissions # <<>>
  /\ \E a \in DOMAIN assignments :
       /\ assignments[a].classId # resp.target
       /\ hasSubmission(assignments[a], resp.studentId)


(***************************************************************************)
(* Retakes: SpecRetake                                                     *)
(***************************************************************************)
\* Bodies of updateAssignment: with and without allowRetake, alone and next
\* to fields that are accepted, refused or skipped.
RetakeBodies ==
  {[allowRetake |-> TRUE],
   [timeLimit |-> 45],
   [timeLimit |-> 0, allowRetake |-> TRUE],
   [dueDate |-> InvalidDateText, allowRetake |-> TRUE],
   [dueDate |-> EmptyText, allowRetake |-> TRUE],
   [weightage |-> 20, weightageType |-> "marks", allowRetake |-> TRUE],
   [weightage |-> 150, weightageType |-> "percentage", allowRetake |-> TRUE],
   [weightageType |-> "grade", allowRetake |-> TRUE],
   [proctoringEnabled |-> TRUE]}

\* Bodies of createAssignment: for the whole class, for branches and
\* subclasses of it, without a time limit, for a class and a quiz that are
\* not stored, and with a due date that is no date.
\* The requests on an assignment, as caller and assignment: the first
\* assignment by its admin and by another admin, and the deleted one.
RetakeRequests == {<<"adm", "a1">>, <<"eve", "a1">>, <<"adm", "a2">>}

CreateBodies ==
  {AssignmentBody("c1", DueDate, NoString),
   [AssignmentBody("c1", DueDate, <<"M", "I", "M">>) EXCEPT !.timeLimit = 45]
     @@ [subclasses |-> <<"A">>],
   [quizId |-> "qz1", classId |-> "c1", dueDate |-> DateText(DueDate)],
   AssignmentBody("c2", DueDate, NoString),
   [AssignmentBody("c1", DueDate, NoString) EXCEPT !.quizId = "qz2"],
   [AssignmentBody("c1", DueDate, NoString) EXCEPT !.dueDate = InvalidDateText]}

\* The class with its assignment, after an assignment that was created and
\* deleted.
InitRetake ==
  /\ now = 0
  /\ users = InitUsers
  /\ quizzes = InitQuizzes
  /\ classes = [c \in {"c1"} |-> EnrolledClass]
  /\ assignments = [a \in {"a1"} |-> AssignmentOf("c1", DueDate, NoString)]
  /\ reqs = EmptyBag
  /\ resp = NoResponse
  /\ lateSetting = [c \in ClassIds |-> "unset"]
  /\ browser = NoBrowser
  /\ created = {"c1", "a1", "a2"}

\* The candidates submit, one request at a time, while the admin (or another
\* admin) updates the assignment, deletes it and creates assignments.
NextRetake ==
  \/ /\ CountInFlight("submitQuiz", "a1") = 0
     /\ \E u \in {"u1", "u2"} :
          submitQuiz_findAssignment(u, "a1", [answers |-> FullSheet])
     /\ UNCHANGED <<browser, created>>
  \/ \E q \in InFlight : submitQuiz_check(q) /\ UNCHANGED <<browser, created>>
  \/ \E q \in InFlight : submitQuiz_save(q) /\ UNCHANGED <<browser, created>>
  \/ \E r \in RetakeRequests, b \in RetakeBodies :
       updateAssignment_find(r[1], r[2], b) /\ UNCHANGED <<browser, created>>
  \/ \E q \in InFlight : updateAssignment_save(q) /\ UNCHANGED <<browser, created>>
  \/ \E q \in InFlight :
       updateAssignment_populateQuiz(q) /\ UNCHANGED <<browser, created>>
  \/ \E q \in InFlight :
       updateAssignment_populateClass(q) /\ UNCHANGED <<browser, created>>
  \/ /\ reqs = EmptyBag
     /\ \E b \in CreateBodies : createAssignment_findQuiz("adm", b)
     /\ UNCHANGED <<browser, created>>
  \/ \E q \in InFlight :
       createAssignment_findClass(q) /\ UNCHANGED <<browser, created>>
  \/ \E q \in InFlight :
       createAssignment_findBySubgroup(q) /\ UNCHANGED <<browser, created>>
  \/ \E q \in InFlight :
       createAssignment_findBySubclasses(q) /\ UNCHANGED <<browser, created>>
  \/ \E q \in InFlight : createAssignment_save(q) /\ UNCHANGED browser
  \/ \E q \in InFlight :
       createAssignment_populateQuiz(q) /\ UNCHANGED <<browser, created>>
  \/ \E q \in InFlight :
       createAssignment_populateClass(q) /\ UNCHANGED <<browser, created>>
  \/ \E r \in RetakeRequests :
       deleteAssignment_find(r[1], r[2]) /\ UNCHANGED <<browser, created>>
  \/ \E q \in InFlight : deleteAssignment_delete(q) /\ UNCHANGED <<browser, created>>

SpecRetake == InitRetake /\ [][NextRetake]_vars

\* The step answers an updateAssignment of the admin of the assignment.
AnswersAssignmentAdmin ==
  /\ resp'.op = "updateAssignment"
  /\ resp'.target \in DOMAIN assignments
  /\ assignments[resp'.target].adminId = resp'.caller

\* C12 as stated: every updateAssignment of the admin with allowRetake true
\* leaves the submissions empty, every other one leaves them as they were.
C12_EveryRetakeUpdateClears ==
  [][AnswersAssignmentAdmin =>
       IF resp'.allowRetake
         THEN assignments'[resp'.target].submissions = <<>>
         ELSE assignments'[resp'.target].submissions
                = assignments[resp'.target].submissions]_vars

\* C12, amended: the save of an updateAssignment with allowRetake true, when it
\* succeeds, leaves the submissions empty if they are those that the request
\* loaded, and otherwise the request loaded none and the save keeps the ones
\* stored since; the save of an updateAssignment without allowRetake true
\* leaves the submissions as they were; every other step of an
\* updateAssignment leaves every assignment as it was, and only a request
\* whose save succeeded is answered 200.  A submitQuiz that starts afterwards
\* loads the stored assignment, and a submitQuiz of an enrolled candidate whose
\* loaded assignment holds no submission of theirs is not answered 'already
\* submitted'.
C12_AcceptedRetakeUpdateClears ==
  [][/\ \A q \in InFlight :
          (q.op = "updateAssignment" /\ Resumed(q)) =>
            IF q.pc = "save" /\ resp' = NoResponse
              THEN /\ \A a \in DOMAIN assignments \ {q.target} :
                        assignments'[a] = assignments[a]
                   /\ IF /\ q.allowRetake
                         /\ assignments[q.target].submissions
                              = q.loaded.submissions
                        THEN /\ assignments'[q.target].submissions = <<>>
                             /\ \A u \in UserIds :
                                  ~hasSubmission(assignments'[q.target], u)
                        ELSE /\ assignments'[q.target].submissions
                                  = assignments[q.target].submissions
                             /\ q.allowRetake => q.loaded.submissions = <<>>
              ELSE /\ assignments' = assignments
                   /\ resp'.status = 200 => q.pc = "populateClass"
     /\ resp'.op = "updateAssignment" =>
          \/ assignments' = assignments
          \/ \E q \in InFlight :
               q.op = "updateAssignment" /\ q.pc = "save" /\ Resumed(q)
     /\ \A q2 \in BagToSet(reqs') :
          (/\ q2.op = "submitQuiz" /\ q2.pc = "findClass"
           /\ CopiesIn(q2, reqs') > CopiesIn(q2, reqs))
          => q2.assignment = assignments[q2.target]
     /\ \A q \in InFlight :
          (/\ ChecksSubmit(q)
           /\ enrolledIn(q.assignment.classId, q.caller)
           /\ ~hasSubmission(q.assignment, q.caller))
          => resp'.message # MsgAlreadySubmitted]_vars

\* C12's case: the admin's update with allowRetake has emptied the
\* submissions, which held one that a waiting request had loaded, changed the
\* weightage with it, and has just been answered 200.
C12_Witness ==
  /\ resp.op = "updateAssignment" /\ resp.status = 200 /\ resp.allowRetake
  /\ resp.target \in DOMAIN assignments
  /\ assignments[resp.target].submissions = <<>>
  /\ assignments[resp.target].weightage = 20
  /\ \E q \in InFlight :
       /\ q.op = "submitQuiz" /\ q.target = resp.target
       /\ q.assignment.submissions # <<>>


(***************************************************************************)
(* Disclosure of scores                                                    *)
(***************************************************************************)
\* C13: while showResults of the class is not true, the answer to a submitQuiz
\* carries no score, and the answer to getCandidateAssignments carries the
\* caller's score in no field: submissionScore is null and no submission of
\* the caller with its score is part of the data.
C13_ScoreHiddenUnlessShowResults ==
  /\ (resp.op = "submitQuiz" /\ resp.status = 200 /\ ~resp.showResults) =>
       resp.score = <<>>
  /\ (/\ resp.op = "getCandidateAssignments" /\ resp.status = 200
      /\ ~FieldTruthy(classes[resp.target], "showResults")) =>
       \A i \in DOMAIN resp.data :
         /\ resp.data[i].submissionScore = <<>>
         /\ \A j \in DOMAIN resp.data[i].submissions :
              resp.data[i].submissions[j].candidateId = resp.caller
                => "score" \notin DOMAIN resp.data[i].submissions[j]


(***************************************************************************)
(* TakeQuizPage: the timer kept in localStorage, and the submit            *)
(***************************************************************************)
\* Number.prototype.toString and parseInt(s, 10), for whole numbers >= 0.
DecimalDigits == <<"0", "1", "2", "3", "4", "5", "6", "7", "8", "9">>
RECURSIVE NumberToString(_)
NumberToString(n) ==
  IF n < 10 THEN <<DecimalDigits[n + 1]>>
  ELSE Append(NumberToString(n \div 10), DecimalDigits[(n % 10) + 1])
DigitValue(c) == CHOOSE d \in 0..9 : DecimalDigits[d + 1] = c
RECURSIVE parseInt(_)
parseInt(s) ==
  IF Len(s) = 1 THEN DigitValue(s[1])
  ELSE parseInt(SubSeq(s, 1, Len(s) - 1)) * 10 + DigitValue(s[Len(s)])

\* Math.round(x / d): the nearest whole number, halves upwards.
MathRound(x, d) == (2 * x + d) \div (2 * d)

\* The clock counts minutes; Date.now() is in milliseconds.
DateNow == now * 60 * 1000

\* localStorage: key -> string.  getItem of a missing key is null, which is
\* falsy as the empty string is.  The three keys are those of one assignment
\* (`quizEndTime_${assignmentId}` and so on).
getItem(storage, key) ==
  IF key \in DOMAIN storage THEN storage[key] ELSE NoString
setItem(storage, key, value) ==
  [k \in (DOMAIN storage) \cup {key} |-> IF k = key THEN value ELSE storage[k]]
removeItem(storage, key) == [k \in (DOMAIN storage) \ {key} |-> storage[k]]
removeTimerItems(storage) ==
  removeItem(removeItem(removeItem(storage, "quizEndTime"), "quizTimeLimit"),
             "quizUpdatedAt")

\* The three setItem of a timer that starts now; updatedAt is stored as the
\* string of its instant.
startedTimer(storage, data) ==
  setItem(setItem(setItem(storage, "quizEndTime",
                          NumberToString(DateNow + data.timeLimit * 60 * 1000)),
                  "quizTimeLimit", NumberToString(data.timeLimit)),
          "quizUpdatedAt", NumberToString(data.updatedAt))

\* REFRESH-PROOF TIMER SETUP: the localStorage it leaves and the quizEndTime
\* that the interval counts down to.
timerSetup(storage, data) ==
  LET storedEndTime == getItem(storage, "quizEndTime")
      storedTimeLimit == getItem(storage, "quizTimeLimit")
      storedUpdatedAt == getItem(storage, "quizUpdatedAt")
      assignmentWasUpdated ==
        Truthy(storedUpdatedAt) /\ data.updatedAt > parseInt(storedUpdatedAt)
      timeLimitChanged ==
        Truthy(storedTimeLimit) /\ parseInt(storedTimeLimit) # data.timeLimit
      restart == assignmentWasUpdated \/ timeLimitChanged
      kept == IF restart THEN removeItem(storage, "quizEndTime") ELSE storage
      quizEndTime == IF restart THEN NoString ELSE storedEndTime
      endTime == DateNow + data.timeLimit * 60 * 1000
  IN  IF ~Truthy(quizEndTime)
        THEN [storage |-> startedTimer(kept, data), quizEndTime |-> endTime]
      ELSE IF MathRound(parseInt(quizEndTime) - DateNow, 1000) <= 0
        THEN [storage |-> startedTimer(removeTimerItems(kept), data),
              quizEndTime |-> endTime]
      ELSE [storage |-> kept, quizEndTime |-> parseInt(quizEndTime)]

\* fetchQuiz after `await response.json()`: what it does with the data of a
\* 200.  The page is the instance of the component that called the fetch.
loaded(storage, result) ==
  IF result.hasSubmitted
    THEN [storage |-> storage, page |-> NoPage]
  ELSE IF result.isPastDue
    THEN [storage |-> storage, page |-> [NoPage EXCEPT !.view = "error"]]
  ELSE IF result.timeLimit <= 0
    THEN [storage |-> storage, page |-> [NoPage EXCEPT !.view = "error"]]
  ELSE LET timer == timerSetup(storage, result)
       IN  [storage |-> timer.storage,
            page |-> [NoPage EXCEPT !.view = "quiz", !.timer = "running",
                                    !.quizEndTime = timer.quizEndTime]]

\* The stages of a fetch of the page: the request is sent; the server works
\* on it (`request` is the request as reqs holds it); the server has answered;
\* `await fetch(...)` has returned and `await response.json()` is pending.
Sent(body) == [stage |-> "sent", body |-> body]
AtServer(q) == [stage |-> "server", request |-> q]
Answered(response) == [stage |-> "answered", response |-> response]
Fetched(response) == [stage |-> "fetched", response |-> response]

\* response.ok
ok(response) == response.status >= 200 /\ response.status <= 299

\* A step of the page alone: the server is as it was and sends nothing.
pageOnly ==
  /\ resp' = NoResponse
  /\ UNCHANGED <<now, users, quizzes, classes, assignments, reqs, lateSetting,
                 created>>

\* The page is opened, or reloaded: a new instance of the component, whose
\* effect calls fetchQuiz, up to `await fetch(...)`.  What the instance before
\* was waiting for is lost with it; a submit that it had sent and that has not
\* reached the server can still reach it (`left`), at any time or never.  A
\* GET in that state changes nothing at the server and is dropped.
fetchQuiz_fetch ==
  /\ browser' =
       [storage |-> browser.storage, page |-> NoPage, get |-> Sent(<<>>),
        post |-> NoFetch,
        left |-> IF browser.post.stage = "sent"
                   THEN browser.left \cup {browser.post.body}
                   ELSE browser.left]
  /\ pageOnly

\* `await fetch(...)` of fetchQuiz returns: an answer that is not ok is thrown
\* and caught (setError).
fetchQuiz_ok ==
  /\ browser.get.stage = "answered"
  /\ browser' =
       IF ok(browser.get.response)
         THEN [browser EXCEPT !.get = Fetched(browser.get.response)]
         ELSE [browser EXCEPT !.get = NoFetch, !.page.view = "error"]
  /\ pageOnly

\* `await response.json()` of fetchQuiz returns, and fetchQuiz runs to its
\* end.
fetchQuiz_json ==
  /\ browser.get.stage = "fetched"
  /\ LET after == loaded(browser.storage, browser.get.response)
     IN  browser' = [browser EXCEPT !.storage = after.storage,
                                    !.page = after.page,
                                    !.get = NoFetch]
  /\ pageOnly

\* handleSubmit up to its fetch: the guard has passed.
submitting(page, isAutoSubmit) ==
  [page EXCEPT !.hasSubmittedRef = TRUE,
               !.timer = IF @ = "running" THEN "cleared" ELSE @,
               !.autoSubmits = IF isAutoSubmit THEN @ + 1 ELSE @]

\* handleSubmit(isAutoSubmit) with the `answers` of its closure, up to
\* `await fetch(...)`.
handleSubmit_fetch(answers, isAutoSubmit) ==
  /\ ~browser.page.hasSubmittedRef
  /\ browser' = [browser EXCEPT !.page = submitting(@, isAutoSubmit),
                                !.post = Sent(answers)]
  /\ pageOnly

\* handleConfirmSubmit: the candidate confirms the dialog.
handleConfirmSubmit(answers) ==
  /\ browser.page.view = "quiz"
  /\ handleSubmit_fetch(answers, FALSE)

\* `await fetch(...)` of handleSubmit returns.
handleSubmit_response ==
  /\ browser.post.stage = "answered"
  /\ browser' = [browser EXCEPT !.post = Fetched(browser.post.response)]
  /\ pageOnly

\* `await response.json()` of handleSubmit returns, and handleSubmit runs to
\* its end: the timer is forgotten and the result shown, or the error is
\* caught and the ref reset.
handleSubmit_json ==
  /\ browser.post.stage = "fetched"
  /\ browser' =
       IF ok(browser.post.response)
         THEN [browser EXCEPT !.storage = removeTimerItems(@),
                              !.page.view = "result",
                              !.post = NoFetch]
         ELSE [browser EXCEPT !.page.hasSubmittedRef = FALSE,
                              !.post = NoFetch]
  /\ pageOnly

\* The interval callback, no time left: setTimeLeft(0) and clearInterval.
expired(page) ==
  [page EXCEPT !.timeLeft = <<0>>, !.timer = "cleared", !.expiries = @ + 1]

\* Mutant: the callback never submits.
autoSubmitNever(page) == FALSE

\* if (!hasSubmittedRef.current)
autoSubmitDue(page) == ~page.hasSubmittedRef

\* The `answers` of the render whose handleSubmit the interval holds: the
\* effect ran after the first render, in which answers is useState({}).
FirstRenderAnswers == <<>>

\* One call of the callback that setInterval registered.
intervalCallback ==
  /\ browser.page.timer = "running"
  /\ LET remaining == MathRound(browser.page.quizEndTime - DateNow, 1000)
     IN  browser' =
           IF remaining <= 0 /\ autoSubmitDue(browser.page)
             THEN [browser EXCEPT !.page = submitting(expired(@), TRUE),
                                  !.post = Sent(FirstRenderAnswers)]
           ELSE IF remaining <= 0
             THEN [browser EXCEPT !.page = expired(@)]
           ELSE [browser EXCEPT !.page.timeLeft = <<remaining>>]
  /\ pageOnly

\* The request that a step of the server has left waiting in reqs.
suspended ==
  CHOOSE q2 \in BagToSet(reqs') : CopiesIn(q2, reqs') > CopiesIn(q2, reqs)

\* A fetch whose request the server has just worked on.
afterStep == IF resp' = NoResponse THEN AtServer(suspended) ELSE Answered(resp')

\* The browser after a step of the server on request q: the fetch that waits
\* for q moves with it.  When reqs holds q more than once, q is also the
\* request of a page that is no longer open, and the step may be on that one.
browserAfter(q) ==
  LET waits(fetch) == fetch.stage = "server" /\ fetch.request = q
  IN  \/ /\ waits(browser.get)
         /\ browser' = [browser EXCEPT !.get = afterStep]
      \/ /\ waits(browser.post)
         /\ browser' = [browser EXCEPT !.post = afterStep]
      \/ /\ (~waits(browser.get) /\ ~waits(browser.post)) \/ CopiesIn(q, reqs) > 1
         /\ UNCHANGED browser

\* The server takes the GET of the page.
getSingleAssignment_fromPage(candidateId, assignmentId) ==
  /\ browser.get.stage = "sent"
  /\ getSingleAssignment_findAssignment(candidateId, assignmentId)
  /\ browser' = [browser EXCEPT !.get = afterStep]

\* The server takes the POST of the page, or one that a page left behind.
submitQuiz_fromPage(candidateId, assignmentId) ==
  \/ /\ browser.post.stage = "sent"
     /\ submitQuiz_findAssignment(candidateId, assignmentId,
                                 [answers |-> browser.post.body])
     /\ browser' = [browser EXCEPT !.post = afterStep]
  \/ \E answers \in browser.left :
       /\ submitQuiz_findAssignment(candidateId, assignmentId,
                                   [answers |-> answers])
       /\ browser' = [browser EXCEPT !.left = @ \ {answers}]

\* The time limits the admin sets, and the answers the candidate confirms.
PageBodies == {[timeLimit |-> 2]}
PageSheets == {[q \in {"q1", "q2"} |-> IF q = "q1" THEN <<"A">> ELSE NoString]}

\* One candidate takes the quiz of one minute in a browser, reloads the page,
\* submits; time passes and the admin, while the server has nothing else to
\* do, changes the time limit.
InitPage ==
  /\ now = 0
  /\ users = InitUsers
  /\ quizzes = InitQuizzes
  /\ classes = [c \in {"c1"} |-> EnrolledClass]
  /\ assignments =
       [a \in {"a1"} |->
          newAssignment("adm",
                        [AssignmentBody("c1", MaxTime, NoString)
                           EXCEPT !.timeLimit = 1], 0)]
  /\ reqs = EmptyBag
  /\ resp = NoResponse
  /\ lateSetting = [c \in ClassIds |-> "unset"]
  /\ browser = NoBrowser
  /\ created = {"c1", "a1"}

NextPage ==
  \/ fetchQuiz_fetch
  \/ getSingleAssignment_fromPage("u1", "a1") /\ UNCHANGED created
  \/ \E q \in InFlight :
       getSingleAssignment_findClass(q) /\ browserAfter(q) /\ UNCHANGED created
  \/ \E q \in InFlight :
       getSingleAssignment_findClassInfo(q) /\ browserAfter(q)
         /\ UNCHANGED created
  \/ fetchQuiz_ok
  \/ fetchQuiz_json
  \/ \E answers \in PageSheets : handleConfirmSubmit(answers)
  \/ intervalCallback
  \/ submitQuiz_fromPage("u1", "a1") /\ UNCHANGED created
  \/ \E q \in InFlight :
       submitQuiz_check(q) /\ browserAfter(q) /\ UNCHANGED created
  \/ \E q \in InFlight :
       submitQuiz_save(q) /\ browserAfter(q) /\ UNCHANGED created
  \/ handleSubmit_response
  \/ handleSubmit_json
  \/ \E b \in PageBodies :
       /\ reqs = EmptyBag
       /\ updateAssignment_find("adm", "a1", b)
       /\ UNCHANGED <<browser, created>>
  \/ \E q \in InFlight : updateAssignment_save(q) /\ UNCHANGED <<browser, created>>
  \/ \E q \in InFlight :
       updateAssignment_populateQuiz(q) /\ UNCHANGED <<browser, created>>
  \/ \E q \in InFlight :
       updateAssignment_populateClass(q) /\ UNCHANGED <<browser, created>>
  \/ Tick /\ UNCHANGED <<browser, created>>

SpecPage == InitPage /\ [][NextPage]_vars

\* C14: a load of the page that finds an end time stored, with the time limit
\* it was stored for and an assignment not updated since, leaves an end time
\* that is not later.
C14_ReloadNeverMovesEndTimeLater ==
  [][(/\ browser.get.stage = "fetched" /\ browser'.get.stage = "none"
      /\ Truthy(getItem(browser.storage, "quizEndTime"))
      /\ Truthy(getItem(browser.storage, "quizTimeLimit"))
      /\ Truthy(getItem(browser.storage, "quizUpdatedAt"))
      /\ parseInt(getItem(browser.storage, "quizTimeLimit"))
           = browser.get.response.timeLimit
      /\ parseInt(getItem(browser.storage, "quizUpdatedAt"))
           = browser.get.response.updatedAt)
       => /\ Truthy(getItem(browser'.storage, "quizEndTime"))
          /\ parseInt(getItem(browser'.storage, "quizEndTime"))
               <= parseInt(getItem(browser.storage, "quizEndTime"))]_vars

\* The step sends a submit of the page.
SendsSubmit == browser'.post.stage = "sent" /\ browser.post.stage # "sent"

\* C15: an interval callback that finds no time left while no submit has been
\* started stops the timer and sends one submit, the automatic one, with the
\* answers that the callback holds; while a submit is started the page sends
\* none; and a page sends at most one automatic submit.
C15_ExpirySubmitsOnce ==
  [][/\ (/\ browser'.page.expiries = browser.page.expiries + 1
         /\ ~browser.page.hasSubmittedRef)
          => /\ browser'.page.timer = "cleared"
             /\ browser'.page.autoSubmits = browser.page.autoSubmits + 1
             /\ browser.post.stage = "none"
             /\ browser'.post = Sent(FirstRenderAnswers)
             /\ browser'.page.hasSubmittedRef
     /\ browser.page.hasSubmittedRef
          => /\ browser'.page.autoSubmits <= browser.page.autoSubmits
             /\ ~SendsSubmit
     /\ SendsSubmit => browser.post.stage = "none"
     /\ browser'.page.autoSubmits <= 1]_vars

\* The time ran out on the open page: the timer is stopped and the one
\* automatic submit is at the server.
C15_Witness ==
  /\ browser.page.view = "quiz"
  /\ browser.page.expiries = 1
  /\ browser.page.autoSubmits = 1
  /\ browser.page.timer = "cleared"
  /\ browser.page.hasSubmittedRef
  /\ browser.post.stage = "server"
  /\ CountInFlight("submitQuiz", "a1") = 1


(***************************************************************************)
(* Anti-cheat data of a submission: SpecTelemetry                          *)
(***************************************************************************)
\* The bodies of the submit: the answers alone, and with anti-cheat data.
AntiCheatBodies ==
  {[answers |-> FullSheet],
   [answers |-> FullSheet, tabSwitchCount |-> 2],
   [answers |-> FullSheet, escCount |-> 1, wasFullscreen |-> TRUE],
   [answers |-> FullSheet, tabSwitchCount |-> 1, escCount |-> 3,
    wasFullscreen |-> TRUE]}

InitTelemetry ==
  /\ now = 0
  /\ users = InitUsers
  /\ quizzes = InitQuizzes
  /\ classes = [c \in {"c1"} |-> EnrolledClass]
  /\ assignments =
       [a \in {"a1", "a2"} |-> AssignmentOf("c1", DueDate, NoString)]
  /\ reqs = EmptyBag
  /\ resp = NoResponse
  /\ lateSetting = [c \in ClassIds |-> "unset"]
  /\ browser = NoBrowser
  /\ created = {"c1", "a1", "a2"}

\* The class has two assignments due at the same time. The candidates submit
\* the first, with and without anti-cheat data; they read their
\* assignments and the admins read the submissions, each read starting while
\* the server has nothing else to do.
NextTelemetry ==
  \/ \E u \in {"u1", "u2"}, body \in AntiCheatBodies :
       submitQuiz_findAssignment(u, "a1", body)
         /\ UNCHANGED <<browser, created>>
  \/ \E q \in InFlight : submitQuiz_check(q) /\ UNCHANGED <<browser, created>>
  \/ \E q \in InFlight : submitQuiz_save(q) /\ UNCHANGED <<browser, created>>
  \/ \E u \in {"u1", "u2"} :
       /\ reqs = EmptyBag
       /\ getCandidateAssignments_findClass(u, "c1")
       /\ UNCHANGED <<browser, created>>
  \/ \E q \in InFlight :
       getCandidateAssignments_findAssignments(q)
         /\ UNCHANGED <<browser, created>>
  \/ \E q \in InFlight :
       getCandidateAssignments_findUser(q) /\ UNCHANGED <<browser, created>>
  \/ \E u \in {"adm", "eve", "u1"} :
       /\ reqs = EmptyBag
       /\ getAssignmentSubmissions(u, "a1")
       /\ UNCHANGED <<browser, created>>
  \/ Tick /\ UNCHANGED <<browser, created>>

SpecTelemetry == InitTelemetry /\ [][NextTelemetry]_vars

AntiCheatPaths ==
  {"tabSwitchCount", "escCount", "wasFullscreen", "isLateSubmission"}

\* C16: the save of an accepted submit stores the tabSwitchCount, escCount,
\* wasFullscreen (0, 0, false where the request gave none) and
\* isLateSubmission of the submission that the request built, and every
\* submission read back, by the admin (getAssignmentSubmissions) or by a
\* candidate (getCandidateAssignments), carries the four of them.
C16_AntiCheatDataStoredAndReadBack ==
  [][/\ \A q \in InFlight :
          (/\ q.op = "submitQuiz" /\ q.pc = "save"
           /\ reqs' = reqs (-) SetToBag({q})
           /\ resp'.op = "submitQuiz" /\ resp'.status = 200)
            => LET stored == assignments'[q.target].submissions
                   last == stored[Len(stored)]
               IN  /\ AntiCheatPaths \subseteq DOMAIN last
                   /\ \A f \in AntiCheatPaths \cap DOMAIN last :
                        last[f] = q.submission[f]
     /\ (resp'.op = "getAssignmentSubmissions" /\ resp'.status = 200)
          => \A j \in DOMAIN resp'.submissions :
               AntiCheatPaths \subseteq DOMAIN resp'.submissions[j]
     /\ (resp'.op = "getCandidateAssignments" /\ resp'.status = 200)
          => \A i \in DOMAIN resp'.data :
               \A j \in DOMAIN resp'.data[i].submissions :
                 AntiCheatPaths \subseteq DOMAIN resp'.data[i].submissions[j]
    ]_vars


(***************************************************************************)
(* getClassResults: GET /api/assignments/class/:classId/results            *)
(* Three steps, one per query; nothing is written.                         *)
(***************************************************************************)
MsgClassNotFoundOrUnauthorized == "Class not found or you are not authorized"

\* parseFloat(submission.score) || 0: the stored Number, 0 for NaN.
quizPerformancePercentage(score) == IF IsNaN(score) THEN Zero ELSE score

\* let marksObtained: (percentage * weightage) / 100 for the type
\* 'percentage', (percentage / 100) * weightage for the other.
marksObtained(percentage, weightage, weightageType) ==
  IF weightageType = "percentage"
    THEN over(times(percentage, weightage), 100)
    ELSE times(over(percentage, 100), weightage)

\* Math.round((percentage / 100) * totalQuestions)
correctAnswersCount(percentage, totalQuestions) ==
  MathRoundNumber(times(over(percentage, 100), totalQuestions))

\* One element of allSubmissions: assignmentData is the assignment as the
\* second query found it, submission a submission as the third found it.
classResult(a, assignmentData, submission) ==
  LET totalQuestions == Len(quizzes[assignmentData.quizId])
  IN  [assignmentId |-> a,
       candidateId |-> submission.candidateId,
       totalQuestions |-> totalQuestions,
       score |-> correctAnswersCount(quizPerformancePercentage(submission.score),
                                     totalQuestions),
       percentage |-> quizPerformancePercentage(submission.score),
       marksObtained |-> marksObtained(quizPerformancePercentage(submission.score),
                                       assignmentData.weightage,
                                       assignmentData.weightageType),
       weightage |-> assignmentData.weightage,
       weightageType |-> assignmentData.weightageType,
       submittedAt |-> submission.submittedAt]

\* The elements of one assignment: the submissions that are not skipped are
\* those whose candidate is a student of the class.
classResultsOf(a, assignmentData, students) ==
  LET kept == SelectSeq(assignments[a].submissions,
                        LAMBDA submission :
                          ArrayIncludes(students, submission.candidateId))
  IN  [i \in DOMAIN kept |-> classResult(a, assignmentData, kept[i])]

\* allSubmissions, for the assignments in the order `found` of the third
\* query.
RECURSIVE allSubmissions(_, _)
allSubmissions(found, q) ==
  IF found = <<>> THEN <<>>
  ELSE classResultsOf(found[1], q.assignments[found[1]], q.classData.students)
         \o allSubmissions(Tail(found), q)

\* To the second await: Class.findOne({ _id: classId, adminId }).
getClassResults_findClass(adminId, classId) ==
  /\ BagCardinality(reqs) < MaxInFlight
  /\ IF classId \notin DOMAIN classes \/ classes[classId].adminId # adminId
       THEN /\ resp' = Response("getClassResults", adminId, classId, 404,
                                MsgClassNotFoundOrUnauthorized)
            /\ UNCHANGED reqs
       ELSE /\ Suspend([op |-> "getClassResults", pc |-> "findAssignments",
                        caller |-> adminId, target |-> classId,
                        classData |-> classes[classId]])
            /\ resp' = NoResponse
  /\ UNCHANGED <<now, users, quizzes, classes, assignments, lateSetting>>

\* Assignment.find({ classId }).populate('quizId', ...).lean(): the
\* assignments of the class as they are stored now.
getClassResults_findAssignments(q) ==
  /\ q \in InFlight /\ q.op = "getClassResults" /\ q.pc = "findAssignments"
  /\ Resume(q, [op |-> "getClassResults", pc |-> "findSubmissions",
                caller |-> q.caller, target |-> q.target,
                classData |-> q.classData,
                assignments |->
                  [a \in assignmentsOfClass(q.target) |-> assignments[a]]])
  /\ resp' = NoResponse
  /\ UNCHANGED <<now, users, quizzes, classes, assignments, lateSetting>>

\* Assignment.find({ _id: { $in: assignmentIds }, 'submissions.0': ... }):
\* those of them that are stored and have a submission now, in some order;
\* then the elements and the response.
getClassResults_findSubmissions(q) ==
  /\ q \in InFlight /\ q.op = "getClassResults" /\ q.pc = "findSubmissions"
  /\ Finish(q)
  /\ \E found \in Orderings({a \in DOMAIN q.assignments \cap DOMAIN assignments :
                               assignments[a].submissions # <<>>}) :
       resp' =
         [op |-> "getClassResults", caller |-> q.caller, target |-> q.target,
          status |-> 200, message |-> "",
          data |-> allSubmissions(found, q),
          assignments |->
            [a \in DOMAIN q.assignments |->
               [weightage |-> q.assignments[a].weightage,
                weightageType |-> q.assignments[a].weightageType,
                subgroup |-> q.assignments[a].subgroup]]]
  /\ UNCHANGED <<now, users, quizzes, classes, assignments, lateSetting>>


\* A quiz of five questions, and the sheets with none, one, four and five
\* right.
ResultQuiz ==
  [i \in 1..5 |-> [id |-> QuestionIds[i], type |-> "mcq", answer |-> <<"A">>]]
ResultSheets ==
  {[q \in {QuestionIds[i] : i \in 1..5} |->
      IF q \in {QuestionIds[i] : i \in 1..right} THEN <<"A">> ELSE <<"C">>] :
     right \in {0, 1, 4, 5}}

\* The weightages the admin sets.
WeightageBodies ==
  {[weightage |-> 6, weightageType |-> "marks"],
   [weightage |-> 7, weightageType |-> "percentage"],
   [weightageType |-> "marks"],
   [weightageType |-> "percentage"]}

\* The candidates of the class submit, one request at a time; the admin sets
\* the weightage (0 at first) and reads the results, as another admin tries.
InitResults ==
  /\ now = 0
  /\ users = InitUsers
  /\ quizzes = [z \in {"qz1"} |-> ResultQuiz]
  /\ classes = [c \in {"c1"} |-> EnrolledClass]
  /\ assignments = [a \in {"a1"} |-> AssignmentOf("c1", DueDate, NoString)]
  /\ reqs = EmptyBag
  /\ resp = NoResponse
  /\ lateSetting = [c \in ClassIds |-> "unset"]
  /\ browser = NoBrowser
  /\ created = {"c1", "a1"}

NextResults ==
  \/ /\ reqs = EmptyBag
     /\ \E u \in {"u1", "u2"}, s \in ResultSheets :
          submitQuiz_findAssignment(u, "a1", [answers |-> s])
     /\ UNCHANGED <<browser, created>>
  \/ \E q \in InFlight : submitQuiz_check(q) /\ UNCHANGED <<browser, created>>
  \/ \E q \in InFlight : submitQuiz_save(q) /\ UNCHANGED <<browser, created>>
  \/ \E b \in WeightageBodies :
       /\ CountInFlight("updateAssignment", "a1") = 0
       /\ updateAssignment_find("adm", "a1", b)
       /\ UNCHANGED <<browser, created>>
  \/ \E q \in InFlight : updateAssignment_save(q) /\ UNCHANGED <<browser, created>>
  \/ \E q \in InFlight :
       updateAssignment_populateQuiz(q) /\ UNCHANGED <<browser, created>>
  \/ \E q \in InFlight :
       updateAssignment_populateClass(q) /\ UNCHANGED <<browser, created>>
  \/ \E u \in {"adm", "eve"}, c \in {"c1", "c2"} :
       getClassResults_findClass(u, c) /\ UNCHANGED <<browser, created>>
  \/ \E q \in InFlight :
       getClassResults_findAssignments(q) /\ UNCHANGED <<browser, created>>
  \/ \E q \in InFlight :
       getClassResults_findSubmissions(q) /\ UNCHANGED <<browser, created>>

SpecResults == InitResults /\ [][NextResults]_vars

\* The step is the last of the getClassResults request q.
AnswersResults(q) ==
  /\ q.op = "getClassResults" /\ q.pc = "findSubmissions"
  /\ reqs' = reqs (-) SetToBag({q})
  /\ resp'.op = "getClassResults" /\ resp'.status = 200

\* C17: every element of the data of getClassResults reports a stored
\* submission of a student of the class with its score, and the weightage
\* that the request read from the assignment; marksObtained is the Number
\* score * weightage / 100, the same for both weightageTypes; it lies between
\* 0 and the weightage, is the weightage for the score 100 and is 0 for the
\* weightage 0.
C17_MarksAreScoreShareOfWeightage ==
  [][\A q \in InFlight :
       AnswersResults(q) =>
         \A i \in DOMAIN resp'.data :
           LET result == resp'.data[i]
               score == result.percentage
               weightage == q.assignments[result.assignmentId].weightage
               marks == result.marksObtained
           IN  /\ \E j \in DOMAIN assignments[result.assignmentId].submissions :
                    LET submission ==
                          assignments[result.assignmentId].submissions[j]
                    IN  /\ submission.candidateId = result.candidateId
                        /\ submission.score = score
               /\ result.weightage = weightage
               /\ marks = over(times(score, weightage), 100)
               /\ lessOrEqual(Zero, marks)
               /\ lessOrEqual(marks, NumberOf(weightage))
               /\ score = NumberOf(100) => marks = NumberOf(weightage)
               /\ weightage = 0 => marks = Zero]_vars
(***************************************************************************)
(* An assignment of a subgroup: SpecSubgroup                               *)
(***************************************************************************)
\* The assignment is for the branch BCE: u1 (22BCE1) is admitted, u2 (22MIM1)
\* is not.  Both are students of the class; both ask for the quiz and submit.
InitSubgroup ==
  /\ now = 0
  /\ users = InitUsers
  /\ quizzes = InitQuizzes
  /\ classes = [c \in {"c1"} |-> EnrolledClass]
  /\ assignments =
       [a \in {"a1"} |-> AssignmentOf("c1", DueDate, <<"B", "C", "E">>)]
  /\ reqs = EmptyBag
  /\ resp = NoResponse
  /\ lateSetting = [c \in ClassIds |-> "unset"]
  /\ browser = NoBrowser
  /\ created = {"c1", "a1"}

NextSubgroup ==
  \/ \E u \in {"u1", "u2"} :
       getSingleAssignment_findAssignment(u, "a1")
         /\ UNCHANGED <<browser, created>>
  \/ \E q \in InFlight :
       getSingleAssignment_findClass(q) /\ UNCHANGED <<browser, created>>
  \/ \E q \in InFlight :
       getSingleAssignment_findUser(q) /\ UNCHANGED <<browser, created>>
  \/ \E q \in InFlight :
       getSingleAssignment_findClassInfo(q) /\ UNCHANGED <<browser, created>>
  \/ \E u \in {"u1", "u2"}, s \in AnswerSheets :
       submitQuiz_findAssignment(u, "a1", [answers |-> s])
         /\ UNCHANGED <<browser, created>>
  \/ \E q \in InFlight : submitQuiz_check(q) /\ UNCHANGED <<browser, created>>
  \/ \E q \in InFlight : submitQuiz_save(q) /\ UNCHANGED <<browser, created>>
  \/ Tick /\ UNCHANGED <<browser, created>>

SpecSubgroup == InitSubgroup /\ [][NextSubgroup]_vars


\* The candidates that getSingleAssignment answers 403 "subgroup mismatch".
RefusedForSubgroup(candidateId, assignmentId) ==
  /\ users[candidateId].role = "candidate"
  /\ assignmentId \in DOMAIN assignments
  /\ assignments[assignmentId].classId \in DOMAIN classes
  /\ findClassOfStudent(assignments[assignmentId].classId, candidateId) # <<>>
  /\ ~SubgroupAdmits(assignments[assignmentId].subgroup,
                     users[candidateId].registrationNumber)

\* C18: getSingleAssignment refuses exactly the candidates of
\* RefusedForSubgroup for the subgroup; no assignment holds a submission of
\* such a candidate, and no submitQuiz of such a candidate is answered 200.
C18_RefusedCandidateNeverRecorded ==
  /\ (resp.op = "getSingleAssignment" /\ resp.message = MsgSubgroupMismatch)
       => RefusedForSubgroup(resp.caller, resp.target)
  /\ \A u \in UserIds, a \in DOMAIN assignments :
       RefusedForSubgroup(u, a) => ~hasSubmission(assignments[a], u)
  /\ (resp.op = "submitQuiz" /\ RefusedForSubgroup(resp.caller, resp.target))
       => resp.status # 200

====
